---- MODULE Spec2Model ----
(***************************************************************************)
(* Model of the command-execution core of gitsage: the input validators,   *)
(* the auto-fix whitelist, the path resolver, the git executor and the     *)
(* service operations that build git argument vectors.                     *)
(*                                                                         *)
(* Strings are sequences of Unicode code points (naturals), so that the    *)
(* character classes of the regular expressions and of str.strip() are     *)
(* the sets Python uses.  Optional[str] is a record [given, v].            *)
(***************************************************************************)
EXTENDS Integers, Sequences, FiniteSets, TLC

VARIABLES op, in_str, in_opt, in_flag, in_int, in_repo, ret, calls, spawned, procs,
          replies, committed, fs, requests, loop

vars == <<op, in_str, in_opt, in_flag, in_int, in_repo, ret, calls, spawned, procs,
          replies, committed, fs, requests, loop>>

----------------------------------------------------------------------------
(* Bounds of the explored inputs *)

MaxTail == 4      \* characters appended to a command prefix (auto-fix candidates)
MaxNameLen == 2   \* length of the enumerated ref names
MaxMsgLen == 3    \* length of the enumerated commit messages
MaxArgLen == 2    \* length of the names and paths given to service operations
MaxAiLines == 3   \* lines of an answer of the AI service
MaxLines == 2     \* lines of an output of git after its header
MaxRun == 1       \* seconds a child process that exits by itself runs

----------------------------------------------------------------------------
(* Strings *)

None == [given |-> FALSE, v |-> <<>>]
Some(s) == [given |-> TRUE, v |-> s]
\* Python truthiness of an Optional[str]: None and "" are falsy
Truthy(o) == o.given /\ o.v # <<>>

StrsUpTo(A, n) == UNION {[1..k -> A] : k \in 0..n}
Pad(c, n) == [i \in 1..n |-> c]

\* F applied to the value of v, which is computed once
Once(v, F(_)) == CHOOSE r \in {F(x) : x \in {v}} : TRUE

\* sub in s  (str.__contains__)
Contains(s, sub) ==
    \E i \in 0..(Len(s) - Len(sub)) : SubSeq(s, i + 1, i + Len(sub)) = sub
\* s.startswith(p)
StartsWith(s, p) == Len(s) >= Len(p) /\ SubSeq(s, 1, Len(p)) = p

\* str.isspace() of one character, which is also the class \s of a str pattern
PyWhitespace ==
    (9..13) \cup (28..32) \cup {133, 160, 5760} \cup (8192..8202)
        \cup {8232, 8233, 8239, 8287, 12288}

\* s.strip()
Strip(s) ==
    IF \A i \in 1..Len(s) : s[i] \in PyWhitespace THEN <<>>
    ELSE LET lo == CHOOSE i \in 1..Len(s) :
                       s[i] \notin PyWhitespace /\ \A j \in 1..(i - 1) : s[j] \in PyWhitespace
             hi == CHOOSE i \in 1..Len(s) :
                       s[Len(s) + 1 - i] \notin PyWhitespace
                       /\ \A j \in 1..(i - 1) : s[Len(s) + 1 - j] \in PyWhitespace
         IN  SubSeq(s, lo, Len(s) + 1 - hi)

----------------------------------------------------------------------------
(* Regular expressions, as far as _SAFE_AUTO_FIX_PATTERNS uses them.       *)
(* Ends(r, s, i) is the set of offsets j such that r matches s[i+1..j].    *)

Bol == [t |-> "bol"]                       \* ^
Eol == [t |-> "eol"]                       \* $
Lit(l) == [t |-> "lit", l |-> l]           \* literal text
SpacePlus == [t |-> "plus", neg |-> FALSE] \* \s+
NonSpacePlus == [t |-> "plus", neg |-> TRUE] \* \S+
Opt(rs) == [t |-> "opt", rs |-> rs]        \* ( ... )?  around a concatenation

RECURSIVE Ends(_, _, _), EndsCat(_, _, _, _)
Ends(r, s, i) ==
    CASE r.t = "bol" -> IF i = 0 THEN {i} ELSE {}
      [] r.t = "eol" ->
            IF i = Len(s) \/ (i = Len(s) - 1 /\ s[Len(s)] = 10) THEN {i} ELSE {}
      [] r.t = "lit" ->
            IF i + Len(r.l) <= Len(s) /\ SubSeq(s, i + 1, i + Len(r.l)) = r.l
            THEN {i + Len(r.l)} ELSE {}
      [] r.t = "plus" ->
            {j \in (i + 1)..Len(s) :
                \A k \in (i + 1)..j : (s[k] \in PyWhitespace) = ~r.neg}
      [] r.t = "opt" -> {i} \cup EndsCat(r.rs, 1, s, {i})
\* offsets reached from the set `from` by matching rs[k], rs[k+1], ... in turn
EndsCat(rs, k, s, from) ==
    IF k > Len(rs) THEN from
    ELSE EndsCat(rs, k + 1, s, UNION {Ends(rs[k], s, i) : i \in from})

\* re.fullmatch(pattern, s) is not None
FullMatch(rs, s) == Len(s) \in EndsCat(rs, 1, s, {0})

----------------------------------------------------------------------------
(* The auto-fix whitelist (ai_service.py) *)

_SAFE_AUTO_FIX_PATTERNS == <<
    \* ^git fetch(\s+\S+)?$
    <<Bol, Lit(<<103,105,116,32,102,101,116,99,104>>),  \* "git fetch"
      Opt(<<SpacePlus, NonSpacePlus>>), Eol>>,
    \* ^git pull(\s+--rebase)?(\s+\S+\s+\S+)?$
    <<Bol, Lit(<<103,105,116,32,112,117,108,108>>),  \* "git pull"
      Opt(<<SpacePlus, Lit(<<45,45,114,101,98,97,115,101>>)>>),  \* "--rebase"
      Opt(<<SpacePlus, NonSpacePlus, SpacePlus, NonSpacePlus>>), Eol>>,
    \* ^git stash( pop)?$
    <<Bol, Lit(<<103,105,116,32,115,116,97,115,104>>),  \* "git stash"
      Opt(<<Lit(<<32,112,111,112>>)>>), Eol>>,  \* " pop"
    \* ^git checkout -- \.$
    <<Bol, Lit(<<103,105,116,32,99,104,101,99,107,111,117,116,32,45,45,32,46>>), Eol>>,  \* "git checkout -- ."
    \* ^git merge --abort$
    <<Bol, Lit(<<103,105,116,32,109,101,114,103,101,32,45,45,97,98,111,114,116>>), Eol>>,  \* "git merge --abort"
    \* ^git rebase --abort$
    <<Bol, Lit(<<103,105,116,32,114,101,98,97,115,101,32,45,45,97,98,111,114,116>>), Eol>>,  \* "git rebase --abort"
    \* ^git cherry-pick --abort$
    <<Bol, Lit(<<103,105,116,32,99,104,101,114,114,121,45,112,105,99,107,32,
                 45,45,97,98,111,114,116>>), Eol>>,
    \* ^git reset HEAD~1$
    <<Bol, Lit(<<103,105,116,32,114,101,115,101,116,32,72,69,65,68,126,49>>), Eol>>,  \* "git reset HEAD~1"
    \* ^git restore --staged \.$
    <<Bol, Lit(<<103,105,116,32,114,101,115,116,111,114,101,32,
                 45,45,115,116,97,103,101,100,32,46>>), Eol>> >>

\* variant: the patterns are matched without their closing anchor (re.match
\* on patterns that lack "$")
_is_safe_auto_fix_unanchored(cmd) ==
    \E p \in 1..Len(_SAFE_AUTO_FIX_PATTERNS) :
        LET pat == _SAFE_AUTO_FIX_PATTERNS[p]
        IN  EndsCat(SubSeq(pat, 1, Len(pat) - 1), 1, Strip(cmd), {0}) # {}

_is_safe_auto_fix(cmd) ==
    \E p \in 1..Len(_SAFE_AUTO_FIX_PATTERNS) :
        FullMatch(_SAFE_AUTO_FIX_PATTERNS[p], Strip(cmd))

----------------------------------------------------------------------------
(* Input validators (commit_service.py, status.py, remotes.py) *)

RefNameMax == 250
MessageMax == 4096

\* [" ", "\t", "\n", "\x00", "\\", "..", "~", "^", ":", "?", "*", "["]
forbidden == << <<32>>, <<9>>, <<10>>, <<0>>, <<92>>, <<46,46>>, <<126>>,  \* ".."
                <<94>>, <<58>>, <<63>>, <<42>>, <<91>> >>

\* variant: "-" is refused anywhere in the name, not only in front
_is_valid_ref_name_no_dash(name) ==
    IF name = <<>> \/ Len(name) > RefNameMax THEN FALSE
    ELSE /\ ~\E k \in 1..Len(forbidden) : Contains(name, forbidden[k])
         /\ ~Contains(name, <<45>>)

_is_valid_ref_name(name) ==
    IF name = <<>> \/ Len(name) > RefNameMax THEN FALSE
    ELSE /\ ~\E k \in 1..Len(forbidden) : Contains(name, forbidden[k])
         /\ ~StartsWith(name, <<45>>)

\* the class [\x00-\x08\x0b-\x1f\x7f]
ControlChars == (0..8) \cup (11..31) \cup {127}

\* variant: the whitespace is trimmed before the control characters are removed
_sanitize_commit_message_strip_first(message) ==
    LET NotControl(c) == c \notin ControlChars
    IN  SelectSeq(Strip(message), NotControl)

_sanitize_commit_message(message) ==
    LET NotControl(c) == c \notin ControlChars
        cleaned == SelectSeq(message, NotControl)
    IN  Strip(cleaned)

\* FileActionRequest.validate_file_path: TRUE when the schema accepts v
validate_file_path(v) ==
    ~(v = <<>> \/ StartsWith(v, <<45>>) \/ Contains(v, <<0>>) \/ Contains(v, <<46,46>>))  \* ".."

\* RemoteActionRequest.validate_remote: TRUE when the schema accepts v
validate_remote(v) ==
    ~(v = <<>> \/ StartsWith(v, <<45>>) \/ Contains(v, <<32>>))

----------------------------------------------------------------------------
(* Text helpers *)

RECURSIVE Join(_, _)
\* sep.join(parts)
Join(sep, parts) ==
    IF parts = <<>> THEN <<>>
    ELSE IF Len(parts) = 1 THEN parts[1]
    ELSE parts[1] \o sep \o Join(sep, Tail(parts))

\* the j-th smallest element of a set of numbers
Nth(S, j) == CHOOSE x \in S : Cardinality({y \in S : y < x}) = j - 1

\* s.split(c) for a one-character separator: the pieces between the
\* occurrences of c
Split(s, c) ==
    LET at == {i \in 1..Len(s) : s[i] = c}
    IN  [j \in 1..(Cardinality(at) + 1) |->
            SubSeq(s, IF j = 1 THEN 1 ELSE Nth(at, j - 1) + 1,
                      IF j > Cardinality(at) THEN Len(s) ELSE Nth(at, j) - 1)]

RECURSIVE Decimal(_)
\* str(n) for n >= 0
Decimal(n) == IF n < 10 THEN <<48 + n>> ELSE Decimal(n \div 10) \o <<48 + (n % 10)>>

----------------------------------------------------------------------------
(* The file system and the path resolver (git_runner.py, config.py)        *)
(* fs maps each directory the model knows to "absent", "dir" (a directory  *)
(* without .git) or "repo" (a directory holding .git); "/" always exists.  *)

Dirs == { <<47,114>> }                    \* "/r"
Cwd == <<47,114>>                          \* working directory of the server
DotGit == <<46,103,105,116>>               \* ".git"

RECURSIVE Collapse(_, _, _)
\* the components after "." and empty components are dropped and ".." pops
Collapse(parts, k, stack) ==
    IF k > Len(parts) THEN stack
    ELSE IF parts[k] = <<>> \/ parts[k] = <<46>> THEN Collapse(parts, k + 1, stack)
    ELSE IF parts[k] = <<46,46>>  \* ".."
         THEN Collapse(parts, k + 1,
                       IF stack = <<>> THEN stack ELSE SubSeq(stack, 1, Len(stack) - 1))
    ELSE Collapse(parts, k + 1, Append(stack, parts[k]))

\* str(Path(raw).resolve()) on a file system without symbolic links
PathResolve(raw) ==
    LET base == IF StartsWith(raw, <<47>>) THEN <<>> ELSE Collapse(Split(Cwd, 47), 1, <<>>)
    IN  <<47>> \o Join(<<47>>, Collapse(Split(raw, 47), 1, base))

\* str(p / name)
PathJoin(p, name) == IF p = <<47>> THEN p \o name ELSE p \o <<47>> \o name

\* Path(p).exists() for a canonical p
Exists(p) ==
    \/ p = <<47>>
    \/ p \in Dirs /\ fs[p] # "absent"
    \/ \E d \in Dirs : fs[d] = "repo" /\ p = PathJoin(d, DotGit)

\* settings.DEFAULT_REPO_PATH: "." resolved when the settings are loaded
DEFAULT_REPO_PATH == PathResolve(<<46>>)

\* Path(raw).resolve() raises ValueError("embedded null byte") when lstat is
\* handed a NUL; neither _resolve_repo nor is_repo catches it.
_resolve_repo(repo_path) ==
    LET raw == IF Truthy(repo_path) THEN repo_path.v ELSE DEFAULT_REPO_PATH
    IN  IF Contains(raw, <<0>>) THEN [kind |-> "ValueError", path |-> <<>>]
        ELSE LET resolved == PathResolve(raw)
             IN  IF ~Exists(resolved)
                 THEN [kind |-> "InvalidPathError", path |-> <<>>]
                 ELSE IF ~Exists(PathJoin(resolved, DotGit))
                 THEN [kind |-> "RepoNotFoundError", path |-> <<>>]
                 ELSE [kind |-> "ok", path |-> resolved]

\* is_repo(path): the result, or the exception that escapes
is_repo(path) ==
    LET r == _resolve_repo(Some(path))
    IN  IF r.kind = "ok" THEN [kind |-> "ok", b |-> TRUE]
        ELSE IF r.kind \in {"RepoNotFoundError", "InvalidPathError"}
        THEN [kind |-> "ok", b |-> FALSE]
        ELSE [kind |-> r.kind, b |-> FALSE]

----------------------------------------------------------------------------
(* The git executor (git_runner.py)                                        *)
(* An operation yields an effect: the value returned or the exception      *)
(* raised (ret), the argument lists handed to run_git (calls) and the      *)
(* argument vectors of the child processes that were started (spawned)     *)
(* what became of each call of subprocess.run (procs) and the answers of   *)
(* the AI service to the calls of _call_gemini (replies), and whether a    *)
(* child process of the operation has created a commit in the repository   *)
(* (committed).                                                            *)

NoRecs == <<>>
Returned(s) ==
    [kind |-> "ok", msg |-> <<>>, b |-> TRUE, s |-> s, stderr |-> <<>>, recs |-> NoRecs]
Raised(kind, msg, stderr) ==
    [kind |-> kind, msg |-> msg, b |-> FALSE, s |-> <<>>, stderr |-> stderr, recs |-> NoRecs]
Effect(r, c, p) ==
    [ret |-> r, calls |-> c, spawned |-> p, procs |-> <<>>, replies |-> <<>>, committed |-> FALSE]

\* raise ValueError(...) before any call of run_git; the repr of the value
\* that follows the fixed text of the message is not modelled
Invalid(msg) == Effect(Raised("ValueError", msg, <<>>), <<>>, <<>>)

MSG_TIMEOUT == <<71,105,116,32,99,111,109,109,97,110,100,32,116,105,109,101,100,32,111,117,116,46>>  \* "Git command timed out."
MSG_NOT_FOUND == <<103,105,116,32,101,120,101,99,117,116,97,98,108,101,32,110,111,116,32,102,111,117,110,100,46,32,73,115,32,103,105,116,32,105,110,115,116,97,108,108,101,100,63>>  \* "git executable not found. Is git installed?"
MSG_FAILED == <<71,105,116,32,99,111,109,109,97,110,100,32,102,97,105,108,101,100,58,32>>  \* "Git command failed: "
MSG_BRANCH == <<73,110,118,97,108,105,100,32,98,114,97,110,99,104,32,110,97,109,101,58,32>>  \* "Invalid branch name: "
MSG_FILE == <<73,110,118,97,108,105,100,32,102,105,108,101,32,112,97,116,104,58,32>>  \* "Invalid file path: "
MSG_EMPTY == <<67,111,109,109,105,116,32,109,101,115,115,97,103,101,32,99,97,110,110,111,116,32,98,101,32,101,109,112,116,121,46>>  \* "Commit message cannot be empty."
MSG_LONG == <<67,111,109,109,105,116,32,109,101,115,115,97,103,101,32,101,120,99,101,101,100,115,32,109,97,120,105,109,117,109,32,108,101,110,103,116,104,32,111,102,32,52,48,57,54,32,99,104,97,114,97,99,116,101,114,115,46>>  \* "Commit message exceeds maximum length of 4096 characters."

\* what the child process does: px.how is "missing" (no git executable),
\* "timeout" (still running when the timeout expires), "nonzero" or
\* "exit0"; px.stdout and px.stderr are its output
_GIT_TIMEOUT == 30

\* variant: a child that outlives the timeout is left running
subprocess_run_abandon(px, timeout) ==
    [how |-> px.how, stdout |-> px.stdout, stderr |-> px.stderr, timeout |-> timeout,
     child |-> CASE px.how = "missing" -> "none"
                 [] px.how = "timeout" -> "running"
                 [] OTHER -> "exited"]

\* subprocess.run(cmd, capture_output=True, text=True, timeout=timeout):
\* the outcome of the call and the state of the child when the call ends.
\* A child that is still running when the timeout expires is killed and
\* waited for before TimeoutExpired is raised.
subprocess_run(px, timeout) ==
    [how |-> px.how, stdout |-> px.stdout, stderr |-> px.stderr, timeout |-> timeout,
     child |-> CASE px.how = "missing" -> "none"
                 [] px.how = "timeout" -> "killed"
                 [] OTHER -> "exited"]

\* variant: the failure message names every argument
run_git_all_args(args, repo_path, px) ==
    LET cwd == _resolve_repo(repo_path)
        cmd == << <<103,105,116>>, <<45,67>>, cwd.path >> \o args  \* "git" "-C"
        result == subprocess_run(px, _GIT_TIMEOUT)
        failed == Raised("GitCommandError", MSG_FAILED \o Join(<<32>>, args), Strip(result.stderr))
    IN  IF cwd.kind # "ok"
        THEN Effect(Raised(cwd.kind, <<>>, <<>>), <<args>>, <<>>)
        ELSE [Effect(CASE result.how = "missing" -> Raised("GitCommandError", MSG_NOT_FOUND, <<>>)
                       [] result.how = "timeout" -> Raised("GitCommandError", MSG_TIMEOUT, <<>>)
                       [] result.how = "nonzero" -> failed
                       [] result.how = "exit0" -> Returned(result.stdout),
                     <<args>>,
                     IF result.how = "missing" THEN <<>> ELSE <<cmd>>)
              EXCEPT !.procs = <<result>>]

\* variant: a failed invocation is attempted a second time
run_git_retry(args, repo_path, px) ==
    LET cwd == _resolve_repo(repo_path)
        cmd == << <<103,105,116>>, <<45,67>>, cwd.path >> \o args  \* "git" "-C"
        result == subprocess_run(px, _GIT_TIMEOUT)
        failed == Raised("GitCommandError",
                         MSG_FAILED \o Join(<<32>>, SubSeq(args, 1, IF Len(args) < 2 THEN Len(args) ELSE 2)),
                         Strip(result.stderr))
        again == IF result.how = "exit0" THEN <<>> ELSE <<result>>
    IN  IF cwd.kind # "ok"
        THEN Effect(Raised(cwd.kind, <<>>, <<>>), <<args>>, <<>>)
        ELSE [Effect(CASE result.how = "missing" -> Raised("GitCommandError", MSG_NOT_FOUND, <<>>)
                       [] result.how = "timeout" -> Raised("GitCommandError", MSG_TIMEOUT, <<>>)
                       [] result.how = "nonzero" -> failed
                       [] result.how = "exit0" -> Returned(result.stdout),
                     <<args>>,
                     IF result.how = "missing" THEN <<>>
                     ELSE IF result.how = "exit0" THEN <<cmd>> ELSE <<cmd, cmd>>)
              EXCEPT !.procs = <<result>> \o again]

run_git(args, repo_path, px) ==
    LET cwd == _resolve_repo(repo_path)
        cmd == << <<103,105,116>>, <<45,67>>, cwd.path >> \o args  \* "git" "-C"
        result == subprocess_run(px, _GIT_TIMEOUT)
        failed == Raised("GitCommandError",
                         MSG_FAILED \o Join(<<32>>, SubSeq(args, 1, IF Len(args) < 2 THEN Len(args) ELSE 2)),
                         Strip(result.stderr))
    IN  IF cwd.kind # "ok"
        THEN Effect(Raised(cwd.kind, <<>>, <<>>), <<args>>, <<>>)
        ELSE [Effect(CASE result.how = "missing" -> Raised("GitCommandError", MSG_NOT_FOUND, <<>>)
                       [] result.how = "timeout" -> Raised("GitCommandError", MSG_TIMEOUT, <<>>)
                       [] result.how = "nonzero" -> failed
                       [] result.how = "exit0" -> Returned(result.stdout),
                     <<args>>,
                     IF result.how = "missing" THEN <<>> ELSE <<cmd>>)
              EXCEPT !.procs = <<result>>]

----------------------------------------------------------------------------
(* Branch operations (branch_service.py) *)

create_branch(name, checkout, repo_path, px) ==
    IF ~_is_valid_ref_name(name) THEN Invalid(MSG_BRANCH)
    ELSE IF checkout THEN run_git(<< <<99,104,101,99,107,111,117,116>>, <<45,98>>, name >>, repo_path, px)  \* "checkout" "-b"
    ELSE run_git(<< <<98,114,97,110,99,104>>, name >>, repo_path, px)  \* "branch"

checkout_branch(name, repo_path, px) ==
    IF ~_is_valid_ref_name(name) THEN Invalid(MSG_BRANCH)
    ELSE run_git(<< <<99,104,101,99,107,111,117,116>>, name >>, repo_path, px)  \* "checkout"

delete_branch(name, force, repo_path, px) ==
    IF ~_is_valid_ref_name(name) THEN Invalid(MSG_BRANCH)
    ELSE LET flag == IF force THEN <<45,68>> ELSE <<45,100>>  \* "-D" "-d"
         IN  run_git(<< <<98,114,97,110,99,104>>, flag, name >>, repo_path, px)  \* "branch"

\* variant: the source name is not validated
merge_branch_unvalidated(source, repo_path, px) ==
    run_git(<< <<109,101,114,103,101>>, <<45,45,110,111,45,102,102>>, source >>, repo_path, px)  \* "merge" "--no-ff"

merge_branch(source, repo_path, px) ==
    IF ~_is_valid_ref_name(source) THEN Invalid(MSG_BRANCH)
    ELSE run_git(<< <<109,101,114,103,101>>, <<45,45,110,111,45,102,102>>, source >>, repo_path, px)  \* "merge" "--no-ff"

----------------------------------------------------------------------------
(* Commit operations (commit_service.py) *)

\* variant: the message is checked after sanitizing but passed on as given
create_commit_raw_message(message, repo_path, px1, px2) ==
    LET clean_message == _sanitize_commit_message(message)
    IN  IF clean_message = <<>> THEN Invalid(MSG_EMPTY)
        ELSE IF Len(clean_message) > MessageMax THEN Invalid(MSG_LONG)
        ELSE LET e1 == run_git(<< <<99,111,109,109,105,116>>, <<45,109>>, message >>, repo_path, px1)  \* "commit" "-m"
                 e2 == run_git(<< <<114,101,118,45,112,97,114,115,101>>, <<45,45,115,104,111,114,116>>, <<72,69,65,68>> >>, repo_path, px2)  \* "rev-parse" "--short" "HEAD"
                 \* what the child process of the first invocation, if one was
                 \* started, has done to the repository
                 done == e1.procs # <<>> /\ px1.committed
             IN  IF e1.ret.kind # "ok" THEN [e1 EXCEPT !.committed = done]
                 ELSE [Effect(IF e2.ret.kind = "ok" THEN Returned(Strip(e2.ret.s)) ELSE e2.ret,
                              e1.calls \o e2.calls, e1.spawned \o e2.spawned)
                       EXCEPT !.procs = e1.procs \o e2.procs, !.committed = done]

create_commit(message, repo_path, px1, px2) ==
    LET clean_message == _sanitize_commit_message(message)
    IN  IF clean_message = <<>> THEN Invalid(MSG_EMPTY)
        ELSE IF Len(clean_message) > MessageMax THEN Invalid(MSG_LONG)
        ELSE LET e1 == run_git(<< <<99,111,109,109,105,116>>, <<45,109>>, clean_message >>, repo_path, px1)  \* "commit" "-m"
                 e2 == run_git(<< <<114,101,118,45,112,97,114,115,101>>, <<45,45,115,104,111,114,116>>, <<72,69,65,68>> >>, repo_path, px2)  \* "rev-parse" "--short" "HEAD"
                 \* what the child process of the first invocation, if one was
                 \* started, has done to the repository
                 done == e1.procs # <<>> /\ px1.committed
             IN  IF e1.ret.kind # "ok" THEN [e1 EXCEPT !.committed = done]
                 ELSE [Effect(IF e2.ret.kind = "ok" THEN Returned(Strip(e2.ret.s)) ELSE e2.ret,
                              e1.calls \o e2.calls, e1.spawned \o e2.spawned)
                       EXCEPT !.procs = e1.procs \o e2.procs, !.committed = done]

\* the boundaries str.splitlines() splits on
LineBreaks == {10, 11, 12, 13, 28, 29, 30, 133, 8232, 8233}

\* s.splitlines(): the pieces between the line boundaries, where "\r\n" is
\* one boundary and a boundary at the end of s starts no further line
SplitLines(s) ==
    LET ends == {i \in 1..Len(s) : /\ s[i] \in LineBreaks
                                   /\ ~(s[i] = 13 /\ i < Len(s) /\ s[i + 1] = 10)}
        n == Cardinality(ends)
        count == IF Len(s) > 0 /\ Len(s) \notin ends THEN n + 1 ELSE n
    IN  [j \in 1..count |->
            LET from == IF j = 1 THEN 1 ELSE Nth(ends, j - 1) + 1
                e == IF j > n THEN Len(s) + 1 ELSE Nth(ends, j)
            IN  SubSeq(s, from, IF j <= n /\ s[e] = 10 /\ e > from /\ s[e - 1] = 13
                                THEN e - 2 ELSE e - 1)]

UnitSep == 31

RECURSIVE LogRecords_six_or_more(_, _)
\* variant: a line of more than 6 fields is taken too
LogRecords_six_or_more(lines, k) ==
    IF k > Len(lines) THEN <<>>
    ELSE LET parts == Split(lines[k], UnitSep)
         IN  IF Len(parts) < 6 THEN LogRecords_six_or_more(lines, k + 1)
             ELSE << [sha |-> parts[1], short_sha |-> parts[2], author |-> parts[3],
                      email |-> parts[4], date |-> parts[5], message |-> parts[6]] >>
                  \o LogRecords_six_or_more(lines, k + 1)

RECURSIVE LogRecords(_, _)
\* the Commit records of the lines from the k-th on: lines that do not split
\* into 6 fields are skipped
LogRecords(lines, k) ==
    IF k > Len(lines) THEN <<>>
    ELSE LET parts == Split(lines[k], UnitSep)
         IN  IF Len(parts) # 6 THEN LogRecords(lines, k + 1)
             ELSE << [sha |-> parts[1], short_sha |-> parts[2], author |-> parts[3],
                      email |-> parts[4], date |-> parts[5], message |-> parts[6]] >>
                  \o LogRecords(lines, k + 1)

get_log(limit, branch, repo_path, px) ==
    LET clamped == IF limit < 1 THEN 1 ELSE IF limit > 200 THEN 200 ELSE limit
        fmt == Join(<<UnitSep>>, << <<37,72>>, <<37,104>>, <<37,97,110>>, <<37,97,101>>, <<37,99,105>>, <<37,115>> >>)  \* "%H" "%h" "%an" "%ae" "%ci" "%s"
        args == << <<108,111,103>>, <<45,45,102,111,114,109,97,116,61>> \o fmt, <<45>> \o Decimal(clamped) >>  \* "log" "--format="
    IN  IF Truthy(branch) /\ ~_is_valid_ref_name(branch.v) THEN Invalid(MSG_BRANCH)
        ELSE LET e == run_git(IF Truthy(branch) THEN Append(args, branch.v) ELSE args,
                              repo_path, px)
             IN  IF e.ret.kind # "ok" THEN e
                 ELSE [e EXCEPT !.ret = [Returned(<<>>) EXCEPT !.recs = LogRecords(SplitLines(e.ret.s), 1)]]

----------------------------------------------------------------------------
(* Branch listings (branch_service.py) *)

RECURSIVE BranchRecords(_, _)
\* the Branch records of the lines from the k-th on: lines that do not split
\* into 4 fields are skipped
BranchRecords(lines, k) ==
    IF k > Len(lines) THEN <<>>
    ELSE LET parts == Split(lines[k], UnitSep)
         IN  IF Len(parts) # 4 THEN BranchRecords(lines, k + 1)
             ELSE << [name |-> parts[1], is_current |-> (parts[2] = <<42>>), is_remote |-> FALSE,  \* "*"
                      last_commit_sha |-> parts[3], last_commit_message |-> parts[4]] >>
                  \o BranchRecords(lines, k + 1)

list_branches(repo_path, px) ==
    LET fmt == Join(<<UnitSep>>, << <<37,40,114,101,102,110,97,109,101,58,115,104,111,114,116,41>>, <<37,40,72,69,65,68,41>>, <<37,40,111,98,106,101,99,116,110,97,109,101,58,115,104,111,114,116,41>>, <<37,40,115,117,98,106,101,99,116,41>> >>)  \* "%(refname:short)" "%(HEAD)" "%(objectname:short)" "%(subject)"
        e == run_git(<< <<102,111,114,45,101,97,99,104,45,114,101,102>>, <<45,45,102,111,114,109,97,116,61>> \o fmt, <<114,101,102,115,47,104,101,97,100,115,47>> >>, repo_path, px)  \* "for-each-ref" "--format=" "refs/heads/"
    IN  IF e.ret.kind # "ok" THEN e
        ELSE [e EXCEPT !.ret = [Returned(<<>>) EXCEPT !.recs = BranchRecords(SplitLines(e.ret.s), 1)]]

RECURSIVE StripAll(_, _)
\* [r.strip() for r in refs if r.strip()] from the k-th element on
StripAll(refs, k) ==
    IF k > Len(refs) THEN <<>>
    ELSE IF Strip(refs[k]) = <<>> THEN StripAll(refs, k + 1)
    ELSE <<Strip(refs[k])>> \o StripAll(refs, k + 1)

RECURSIVE GraphRecords(_, _)
\* the graph entries of the lines from the k-th on: lines that do not split
\* into 5 fields are skipped
GraphRecords(lines, k) ==
    IF k > Len(lines) THEN <<>>
    ELSE LET parts == Split(lines[k], UnitSep)
         IN  IF Len(parts) # 5 THEN GraphRecords(lines, k + 1)
             ELSE << [sha |-> parts[1], message |-> parts[2], author |-> parts[3],
                      date |-> parts[4], refs |-> StripAll(Split(parts[5], 44), 1)] >>  \* ","
                  \o GraphRecords(lines, k + 1)

get_branch_graph(repo_path, px) ==
    LET fmt == Join(<<UnitSep>>, << <<37,104>>, <<37,115>>, <<37,97,110>>, <<37,99,105>>, <<37,68>> >>)  \* "%h" "%s" "%an" "%ci" "%D"
        e == run_git(<< <<108,111,103>>, <<45,45,97,108,108>>, <<45,45,100,101,99,111,114,97,116,101,61,115,104,111,114,116>>, <<45,45,102,111,114,109,97,116,61>> \o fmt, <<45,45,109,97,120,45,99,111,117,110,116,61,49,48,48>> >>, repo_path, px)  \* "log" "--all" "--decorate=short" "--format=" "--max-count=100"
    IN  IF e.ret.kind # "ok" THEN e
        ELSE [e EXCEPT !.ret = [Returned(<<>>) EXCEPT !.recs = GraphRecords(SplitLines(e.ret.s), 1)]]

----------------------------------------------------------------------------
(* Staging operations (status_service.py) and their routes (status.py) *)

stage_file(file_path, repo_path, px) ==
    IF StartsWith(file_path, <<45>>) \/ Contains(file_path, <<0>>) THEN Invalid(MSG_FILE)
    ELSE run_git(<< <<97,100,100>>, <<45,45>>, file_path >>, repo_path, px)  \* "add" "--"

unstage_file(file_path, repo_path, px) ==
    IF StartsWith(file_path, <<45>>) \/ Contains(file_path, <<0>>) THEN Invalid(MSG_FILE)
    ELSE run_git(<< <<114,101,115,116,111,114,101>>, <<45,45,115,116,97,103,101,100>>, <<45,45>>, file_path >>, repo_path, px)  \* "restore" "--staged" "--"

\* the request body is rejected by its schema: no handler runs
Rejected == Effect(Raised("RequestValidationError", <<>>, <<>>), <<>>, <<>>)

\* a handler that returns a fixed body drops the value of the service call
Dropped(e) == IF e.ret.kind = "ok" THEN [e EXCEPT !.ret = Returned(<<>>)] ELSE e

\* POST /stage
stage(file_path, repo_path, px) ==
    IF ~validate_file_path(file_path) THEN Rejected
    ELSE Dropped(stage_file(file_path, repo_path, px))

\* POST /unstage
unstage(file_path, repo_path, px) ==
    IF ~validate_file_path(file_path) THEN Rejected
    ELSE Dropped(unstage_file(file_path, repo_path, px))

stage_all(repo_path, px) ==
    run_git(<< <<97,100,100>>, <<45,65>> >>, repo_path, px)  \* "add" "-A"

\* POST /stage-all
stage_all_files(repo_path, px) == Dropped(stage_all(repo_path, px))

MAX_DIFF_BYTES == 50000
TRUNCATED == <<10,10,91,100,105,102,102,32,116,114,117,110,99,97,116,101,100,32,8212,32,116,111,111,32,108,97,114,103,101,93>>  \* "\n\n[diff truncated \u2014 too large]"

get_staged_diff(repo_path, px) ==
    Once(run_git(<< <<100,105,102,102>>, <<45,45,99,97,99,104,101,100>> >>, repo_path, px),  \* "diff" "--cached"
         LAMBDA e :
             IF e.ret.kind # "ok" \/ Len(e.ret.s) <= MAX_DIFF_BYTES THEN e
             ELSE [e EXCEPT !.ret = Returned(SubSeq(e.ret.s, 1, MAX_DIFF_BYTES) \o TRUNCATED)])

\* GET /diff
staged_diff(repo_path, px) == get_staged_diff(repo_path, px)

----------------------------------------------------------------------------
(* Remote operations (remote_service.py) and their routes (remotes.py) *)

fetch(remote, repo_path, px) ==
    run_git(<< <<102,101,116,99,104>>, <<45,45,112,114,117,110,101>>, remote >>, repo_path, px)  \* "fetch" "--prune"

pull(remote, branch, repo_path, px) ==
    LET args == << <<112,117,108,108>>, remote >>  \* "pull"
    IN  run_git(IF Truthy(branch) THEN Append(args, branch.v) ELSE args, repo_path, px)

push(remote, branch, repo_path, px) ==
    LET args == << <<112,117,115,104>>, remote >>  \* "push"
    IN  run_git(IF Truthy(branch) THEN Append(args, branch.v) ELSE args, repo_path, px)

\* POST /fetch
do_fetch(remote, repo_path, px) ==
    IF ~validate_remote(remote) THEN Rejected ELSE fetch(remote, repo_path, px)

\* POST /pull
do_pull(remote, branch, repo_path, px) ==
    IF ~validate_remote(remote) THEN Rejected ELSE pull(remote, branch, repo_path, px)

\* POST /push
do_push(remote, branch, repo_path, px) ==
    IF ~validate_remote(remote) THEN Rejected ELSE push(remote, branch, repo_path, px)

----------------------------------------------------------------------------
(* Error diagnosis (ai_service.py) *)

MSG_NO_ERROR == <<69,114,114,111,114,32,111,117,116,112,117,116,32,99,97,110,110,111,116,32,98,101,32,101,109,112,116,121,46>>  \* "Error output cannot be empty."
AUTO_FIX == <<65,85,84,79,95,70,73,88,58>>  \* "AUTO_FIX:"

\* _call_gemini: ai.how is "unconfigured" (no API key, or HTTP 401), "error"
\* (timeout, network error, other HTTP status, unexpected body) or "ok"
\* with the text of the first candidate; the text is returned stripped
_call_gemini(ai) ==
    CASE ai.how = "unconfigured" -> Raised("AINotConfiguredError", <<>>, <<>>)
      [] ai.how = "error" -> Raised("AIServiceError", <<>>, <<>>)
      [] ai.how = "ok" -> Returned(Strip(ai.text))

RECURSIVE ScanAutoFix_unchecked(_, _, _)
\* variant: the last AUTO_FIX candidate is taken without the whitelist check
ScanAutoFix_unchecked(lines, k, acc) ==
    IF k > Len(lines) THEN acc
    ELSE LET line == lines[k]
             auto_fix_candidate == Strip(SubSeq(line, Len(AUTO_FIX) + 1, Len(line)))
         IN  IF StartsWith(line, AUTO_FIX)
             THEN ScanAutoFix_unchecked(lines, k + 1, [acc EXCEPT !.auto_fix = Some(auto_fix_candidate)])
             ELSE ScanAutoFix_unchecked(lines, k + 1, [acc EXCEPT !.clean_lines = Append(@, line)])

RECURSIVE ScanAutoFix(_, _, _)
\* the loop over raw.splitlines() from the k-th line on: acc.auto_fix is the
\* last candidate that passed the whitelist, acc.clean_lines the other lines
ScanAutoFix(lines, k, acc) ==
    IF k > Len(lines) THEN acc
    ELSE LET line == lines[k]
             auto_fix_candidate == Strip(SubSeq(line, Len(AUTO_FIX) + 1, Len(line)))
         IN  IF StartsWith(line, AUTO_FIX)
             THEN ScanAutoFix(lines, k + 1,
                              IF _is_safe_auto_fix(auto_fix_candidate)
                              THEN [acc EXCEPT !.auto_fix = Some(auto_fix_candidate)]
                              ELSE acc)
             ELSE ScanAutoFix(lines, k + 1, [acc EXCEPT !.clean_lines = Append(@, line)])

\* s.split(sep, 1)
SplitOnce(s, sep) ==
    LET at == {i \in 1..(Len(s) - Len(sep) + 1) : SubSeq(s, i, i + Len(sep) - 1) = sep}
    IN  IF at = {} THEN <<s>>
        ELSE LET i == CHOOSE a \in at : \A j \in at : a <= j
             IN  << SubSeq(s, 1, i - 1), SubSeq(s, i + Len(sep), Len(s)) >>

\* the length of the longest prefix of s made of characters of the set
SpanOf(s, chars) ==
    CHOOSE n \in 0..Len(s) : /\ \A i \in 1..n : s[i] \in chars
                             /\ (n < Len(s) => s[n + 1] \notin chars)

\* the decimal digits (\d) among the characters of the explored texts
Digits == 48..57

\* the length of the match of ^\d+\. at the start of s, 0 when there is none
NumberPrefix(s) ==
    LET n == SpanOf(s, Digits)
    IN  IF n >= 1 /\ n < Len(s) /\ s[n + 1] = 46 THEN n + 1 ELSE 0

\* re.sub(r"^\d+\.\s*", "", line)
DropNumber(line) ==
    LET n == NumberPrefix(line)
        rest == SubSeq(line, n + 1, Len(line))
    IN  IF n = 0 THEN line
        ELSE SubSeq(rest, SpanOf(rest, PyWhitespace) + 1, Len(rest))

RECURSIVE Steps(_, _)
\* the numbered lines from the k-th on, without their numbers
Steps(lines, k) ==
    IF k > Len(lines) THEN <<>>
    ELSE IF NumberPrefix(Strip(lines[k])) > 0
         THEN <<Strip(DropNumber(lines[k]))>> \o Steps(lines, k + 1)
         ELSE Steps(lines, k + 1)

\* the prompt sent to the AI service is not part of the model
diagnose_error(error_output, context, ai) ==
    IF Strip(error_output) = <<>> THEN Invalid(MSG_NO_ERROR)
    ELSE LET raw == _call_gemini(ai)
             scan == ScanAutoFix(SplitLines(raw.s), 1, [auto_fix |-> None, clean_lines |-> <<>>])
             explanation_text == Strip(Join(<<10>>, scan.clean_lines))
             paragraphs == SplitOnce(explanation_text, <<10,10>>)
             steps_raw == IF Len(paragraphs) > 1 THEN paragraphs[2] ELSE <<>>
         IN  [Effect(IF raw.kind # "ok" THEN raw
                     ELSE [Returned(<<>>) EXCEPT !.recs =
                              [explanation |-> Strip(paragraphs[1]),
                               steps |-> Steps(SplitLines(steps_raw), 1),
                               auto_fix |-> scan.auto_fix]],
                     <<>>, <<>>)
              EXCEPT !.replies = <<ai>>]

----------------------------------------------------------------------------
(* Repository status (status_service.py) and its route (status.py) *)

\* FileStatus.is_staged and FileStatus.is_unstaged
is_staged(f) == f.index_status \notin {63, 32, 33}  \* "?" " " "!"
is_unstaged(f) == f.work_status \notin {32, 33}  \* " " "!"

_file_out(f) ==
    [path |-> f.path, index_status |-> f.index_status, work_status |-> f.work_status,
     is_staged |-> is_staged(f), is_unstaged |-> is_unstaged(f)]

RECURSIVE SplitFrom(_, _, _)
\* the pieces of s.split(sep) that start at position from or later
SplitFrom(s, sep, from) ==
    LET at == {i \in from..(Len(s) - Len(sep) + 1) : SubSeq(s, i, i + Len(sep) - 1) = sep}
    IN  IF at = {} THEN <<SubSeq(s, from, Len(s))>>
        ELSE <<SubSeq(s, from, Nth(at, 1) - 1)>> \o SplitFrom(s, sep, Nth(at, 1) + Len(sep))

\* s.split(sep) for a separator of any length
SplitStr(s, sep) == SplitFrom(s, sep, 1)

ARROW == <<32,45,62,32>>  \* " -> "

RECURSIVE FileRecords_first_name(_, _)
\* variant: a rename is listed under its old name
FileRecords_first_name(lines, k) ==
    IF k > Len(lines) THEN <<>>
    ELSE LET line == lines[k]
             path_part == SubSeq(line, 4, Len(line))
             names == SplitStr(path_part, ARROW)
         IN  IF Len(line) < 4 THEN FileRecords_first_name(lines, k + 1)
             ELSE << [path |-> names[1], index_status |-> line[1], work_status |-> line[2]] >>
                  \o FileRecords_first_name(lines, k + 1)

RECURSIVE FileRecords(_, _)
\* the FileStatus records of the lines from the k-th on: lines of fewer than
\* 4 characters are skipped
FileRecords(lines, k) ==
    IF k > Len(lines) THEN <<>>
    ELSE LET line == lines[k]
             path_part == SubSeq(line, 4, Len(line))
             names == SplitStr(path_part, ARROW)
         IN  IF Len(line) < 4 THEN FileRecords(lines, k + 1)
             ELSE << [path |-> names[Len(names)], index_status |-> line[1], work_status |-> line[2]] >>
                  \o FileRecords(lines, k + 1)

_parse_porcelain(output) == FileRecords(SplitLines(output), 1)

\* s.split(): the pieces between runs of whitespace
WsSplit(s) ==
    LET first == {i \in 1..Len(s) : s[i] \notin PyWhitespace /\ (i = 1 \/ s[i - 1] \in PyWhitespace)}
        last == {i \in 1..Len(s) : s[i] \notin PyWhitespace /\ (i = Len(s) \/ s[i + 1] \in PyWhitespace)}
    IN  [j \in 1..Cardinality(first) |-> SubSeq(s, Nth(first, j), Nth(last, j))]

RECURSIVE DecimalValue_last_digit(_, _, _)
\* variant: only the last digit counts
DecimalValue_last_digit(s, k, acc) ==
    IF k > Len(s) THEN acc
    ELSE DecimalValue_last_digit(s, k + 1, IF s[k] \in Digits THEN s[k] - 48 ELSE acc)

RECURSIVE DecimalValue(_, _, _)
\* the number written by the digits of s from the k-th character on
DecimalValue(s, k, acc) ==
    IF k > Len(s) THEN acc
    ELSE DecimalValue(s, k + 1, IF s[k] \in Digits THEN 10 * acc + (s[k] - 48) ELSE acc)

\* int(s): surrounding whitespace, a sign and single underscores between
\* digits are accepted; anything else raises ValueError (ok is FALSE)
ParseInt(s) ==
    LET t == Strip(s)
        signed == t # <<>> /\ t[1] \in {43, 45}  \* "+" "-"
        body == IF signed THEN SubSeq(t, 2, Len(t)) ELSE t
        ok == /\ body # <<>>
              /\ \A i \in 1..Len(body) : body[i] \in Digits \cup {95}
              /\ body[1] # 95 /\ body[Len(body)] # 95
              /\ \A i \in 1..(Len(body) - 1) : ~(body[i] = 95 /\ body[i + 1] = 95)
        n == DecimalValue(body, 1, 0)
    IN  [ok |-> ok, n |-> IF ~ok THEN 0 ELSE IF signed /\ t[1] = 45 THEN 0 - n ELSE n]

AHEAD == <<97,104,101,97,100>>  \* "ahead"
BEHIND == <<98,101,104,105,110,100>>  \* "behind"

\* the loop over info.split(","): each segment that starts with "ahead" or
\* "behind" assigns the number written by its last word, so the last such
\* segment decides; ok is FALSE when int() raises for one of them
ParseInfo(segments) ==
    LET segment(k) == Strip(segments[k])
        count(k) == LET words == WsSplit(segment(k)) IN ParseInt(words[Len(words)])
        ahead == {k \in 1..Len(segments) : StartsWith(segment(k), AHEAD)}
        behind == {k \in 1..Len(segments) : ~StartsWith(segment(k), AHEAD)
                                              /\ StartsWith(segment(k), BEHIND)}
    IN  [ok |-> \A k \in ahead \cup behind : count(k).ok,
         ahead |-> IF ahead = {} THEN 0 ELSE count(Nth(ahead, Cardinality(ahead))).n,
         behind |-> IF behind = {} THEN 0 ELSE count(Nth(behind, Cardinality(behind))).n]

\* the position of the first c in s, 0 when there is none
IndexOf(s, c) ==
    LET at == {i \in 1..Len(s) : s[i] = c}
    IN  IF at = {} THEN 0 ELSE CHOOSE a \in at : \A j \in at : a <= j

\* the conditions of the three lists of get_status
Staged(f) == is_staged(f) /\ f.index_status \notin {63, 33}  \* "?" "!"

\* variant: the index code is not looked at
Unstaged_any_index(f) == is_unstaged(f)

Unstaged(f) == is_unstaged(f) /\ f.index_status # 63  \* "?"

Untracked(f) == f.index_status = 63 /\ f.work_status = 63  \* "?"

\* the branch, ahead and behind of the header line; ok is FALSE when
\* header.index("]") or int() raises ValueError
ParseHeader(lines) ==
    LET has_header == lines # <<>> /\ StartsWith(lines[1], <<35,35,32>>)  \* "## "
        header == SubSeq(lines[1], 4, Len(lines[1]))
        parts == SplitStr(header, <<46,46,46>>)  \* "..."
        open == IndexOf(header, 91)  \* "["
        close == IndexOf(header, 93)  \* "]"
        info == SubSeq(header, open + 1, close - 1)
        start == [ok |-> TRUE, ahead |-> 0, behind |-> 0]
    IN  IF ~has_header
        THEN [ok |-> TRUE, has_header |-> FALSE, branch |-> <<117,110,107,110,111,119,110>>, ahead |-> 0, behind |-> 0]  \* "unknown"
        ELSE LET counts == IF open = 0 THEN start
                           ELSE IF close = 0 THEN [start EXCEPT !.ok = FALSE]
                           ELSE ParseInfo(Split(info, 44))  \* ","
             IN  [ok |-> counts.ok, has_header |-> TRUE, branch |-> parts[1],
                  ahead |-> counts.ahead, behind |-> counts.behind]

\* the RepoStatus built from the lines of the output and the parsed
\* header, or the ValueError of str.index and int (its message is not
\* modelled)
RepoStatusOf(lines, head) ==
    \* lines[1:], whether or not the first line is a header
    LET all_files == _parse_porcelain(Join(<<10>>, SubSeq(lines, 2, Len(lines))))
    IN  IF ~head.ok THEN Raised("ValueError", <<>>, <<>>)
        ELSE [Returned(<<>>) EXCEPT !.recs =
                 [branch |-> head.branch, ahead |-> head.ahead, behind |-> head.behind,
                  staged |-> SelectSeq(all_files, Staged),
                  unstaged |-> SelectSeq(all_files, Unstaged),
                  untracked |-> SelectSeq(all_files, Untracked)]]

get_status(repo_path, px) ==
    Once(run_git(<< <<115,116,97,116,117,115>>, <<45,45,112,111,114,99,101,108,97,105,110,61,118,49>>, <<45,45,98,114,97,110,99,104>> >>, repo_path, px),  \* "status" "--porcelain=v1" "--branch"
         LAMBDA e :
             IF e.ret.kind # "ok" THEN e
             ELSE Once(SplitLines(e.ret.s), LAMBDA lines :
                  Once(ParseHeader(lines), LAMBDA head :
                       [e EXCEPT !.ret = RepoStatusOf(lines, head)])))

\* GET "" of the status router: the lists of the RepoStatus as FileStatusOut
repo_status(repo_path, px) ==
    Once(get_status(repo_path, px),
         LAMBDA e :
             IF e.ret.kind # "ok" THEN e
             ELSE [e EXCEPT !.ret.recs =
                      [branch |-> e.ret.recs.branch, ahead |-> e.ret.recs.ahead,
                       behind |-> e.ret.recs.behind,
                       staged |-> [i \in DOMAIN e.ret.recs.staged |-> _file_out(e.ret.recs.staged[i])],
                       unstaged |-> [i \in DOMAIN e.ret.recs.unstaged |-> _file_out(e.ret.recs.unstaged[i])],
                       untracked |-> [i \in DOMAIN e.ret.recs.untracked |-> _file_out(e.ret.recs.untracked[i])]]])

\* GET /health: answers without any call
health == Effect(Returned(<<>>), <<>>, <<>>)

----------------------------------------------------------------------------
(* Remote listing (remote_service.py) *)

\* s.strip(chars)
StripChars(s, chars) ==
    LET rest == SubSeq(s, SpanOf(s, chars) + 1, Len(s))
        n == CHOOSE m \in 0..Len(rest) :
                 /\ \A i \in 1..m : rest[Len(rest) + 1 - i] \in chars
                 /\ (m < Len(rest) => rest[Len(rest) - m] \notin chars)
    IN  SubSeq(rest, 1, Len(rest) - n)

\* variant: the first url of a direction is kept
SetUrl_keep_first(seen, name, url, direction) ==
    LET known == \E i \in 1..Len(seen) : seen[i].name = name
        all == IF known THEN seen
               ELSE Append(seen, [name |-> name, fetch_url |-> <<>>, push_url |-> <<>>])
    IN  [i \in 1..Len(all) |->
            IF all[i].name # name THEN all[i]
            ELSE IF direction = <<102,101,116,99,104>> /\ all[i].fetch_url = <<>> THEN [all[i] EXCEPT !.fetch_url = url]  \* "fetch"
            ELSE IF direction = <<112,117,115,104>> /\ all[i].push_url = <<>> THEN [all[i] EXCEPT !.push_url = url]  \* "push"
            ELSE all[i]]

\* the entry of seen for the name, with the url of the direction replaced
SetUrl(seen, name, url, direction) ==
    LET known == \E i \in 1..Len(seen) : seen[i].name = name
        all == IF known THEN seen
               ELSE Append(seen, [name |-> name, fetch_url |-> <<>>, push_url |-> <<>>])
    IN  [i \in 1..Len(all) |->
            IF all[i].name # name THEN all[i]
            ELSE IF direction = <<102,101,116,99,104>> THEN [all[i] EXCEPT !.fetch_url = url]  \* "fetch"
            ELSE IF direction = <<112,117,115,104>> THEN [all[i] EXCEPT !.push_url = url]  \* "push"
            ELSE all[i]]

RECURSIVE RemoteRecords(_, _, _)
\* the loop over raw.splitlines() from the k-th line on; seen holds the
\* remotes in the order in which their names first appeared
RemoteRecords(lines, k, seen) ==
    IF k > Len(lines) THEN seen
    ELSE LET parts == WsSplit(lines[k])
         IN  IF Len(parts) < 3 THEN RemoteRecords(lines, k + 1, seen)
             ELSE RemoteRecords(lines, k + 1,
                                SetUrl(seen, parts[1], parts[2], StripChars(parts[3], {40, 41})))  \* "(" ")"

list_remotes(repo_path, px) ==
    LET e == run_git(<< <<114,101,109,111,116,101>>, <<45,118>> >>, repo_path, px)  \* "remote" "-v"
    IN  IF e.ret.kind # "ok" THEN e
        ELSE [e EXCEPT !.ret = [Returned(<<>>) EXCEPT !.recs = RemoteRecords(SplitLines(e.ret.s), 1, <<>>)]]

----------------------------------------------------------------------------
(* Inputs *)

\* candidate commands: the listed commands, and a whitelisted command
\* followed by up to MaxTail characters
TailAlphabet == {32, 59, 124, 38, 97}       \* " " ";" "|" "&" "a"
CmdPrefixes == { <<103,105,116,32,102,101,116,99,104>>,  \* "git fetch"
                 <<103,105,116,32,112,117,108,108>>,  \* "git pull"
                 <<103,105,116,32,115,116,97,115,104>> }  \* "git stash"
CmdLiterals == {
    <<>>,
    <<103,105,116,32,102,101,116,99,104,32,111,114,105,103,105,110>>,  \* "git fetch origin"
    <<103,105,116,32,115,116,97,115,104,32,112,111,112>>,  \* "git stash pop"
    <<103,105,116,32,109,101,114,103,101,32,45,45,97,98,111,114,116>>,  \* "git merge --abort"
    <<103,105,116,32,114,101,98,97,115,101,32,45,45,97,98,111,114,116>>,  \* "git rebase --abort"
    <<103,105,116,32,102,101,116,99,104,32,38,38,32,114,109,32,45,114,102,32,47>>,  \* "git fetch && rm -rf /"
    <<103,105,116,32,112,117,115,104,32,111,114,105,103,105,110,32,45,45,102,111,114,99,101>>,  \* "git push origin --force"
    <<103,105,116,32,114,101,115,101,116,32,45,45,104,97,114,100,32,72,69,65,68,126,53>>,  \* "git reset --hard HEAD~5"
    <<114,109,32,45,114,102,32,47>> }  \* "rm -rf /"
Commands == CmdLiterals \cup {p \o t : p \in CmdPrefixes, t \in StrsUpTo(TailAlphabet, MaxTail)}

\* ref names: letters, digits, "/", "-", "_", every forbidden character and
\* the whitespace characters "\r", "\f", "\v"; and names around 250 characters
RefAlphabet == {97, 48, 47, 45, 95} \cup {32, 9, 10, 0, 92, 46, 126, 94, 58, 63, 42, 91}
                   \cup {13, 12, 11}
RefNames == StrsUpTo(RefAlphabet, MaxNameLen)
              \cup {Pad(97, n) \o t : n \in {RefNameMax - 1, RefNameMax},
                                      t \in StrsUpTo({97, 45, 46}, 1)}

\* commit messages: "a", " ", "\n", "\t", the control characters \x01 and
\* \x7f and the no-break space; and messages around 4096 characters
MsgAlphabet == {97, 32, 10, 9, 1, 127, 160}
LongMessages == {h \o Pad(97, n) \o t : n \in {MessageMax - 1, MessageMax, MessageMax + 1},
                                        h \in StrsUpTo({32, 1}, 1),
                                        t \in StrsUpTo({32, 1}, 1)}
Messages == StrsUpTo(MsgAlphabet, MaxMsgLen) \cup LongMessages
CommitMessages == StrsUpTo({97, 32, 1}, MaxArgLen) \cup LongMessages

\* names and paths handed to the service operations
NameAlphabet == {97, 45, 46, 32}            \* "a" "-" "." " "
ArgNames == StrsUpTo(NameAlphabet, MaxArgLen)
PathAlphabet == {97, 45, 46, 0}             \* "a" "-" "." NUL
FilePaths == StrsUpTo(PathAlphabet, MaxArgLen)
RemoteAlphabet == {97, 45, 32}              \* "a" "-" " "
RemoteNames == StrsUpTo(RemoteAlphabet, MaxArgLen)
OptBranches == {None} \cup {Some(b) : b \in StrsUpTo({97, 45}, MaxArgLen)}
Limits == {0, 30, 999}

\* repository paths: None, "", "/r", "../r", "/r/.git", "/x", "r", "/r" NUL
RepoPaths == {None, Some(<<>>), Some(<<47,114>>), Some(<<46,46,47,114>>),
              Some(<<47,114,47,46,103,105,116>>), Some(<<47,120>>), Some(<<114>>),
              Some(<<47,114,0>>)}
\* None, "../r", "/x"
ServiceRepoPaths == {None, Some(<<46,46,47,114>>), Some(<<47,120>>)}

\* argument lists handed to run_git directly
GitArgs == { <<>>,
             << <<115,116,97,116,117,115>> >>,  \* "status"
             << <<108,111,103>>, <<45,49>> >>,  \* "log" "-1"
             << <<99,111,109,109,105,116>>, <<45,109>>, <<97,32,98>> >> }  \* "commit" "-m" "a b"

\* answers of the AI service: up to MaxAiLines lines
AiLines == { <<>>,
             <<120>>,  \* "x"
             <<49,46,32,97>>,  \* "1. a"
             <<65,85,84,79,95,70,73,88,58,32,103,105,116,32,115,116,97,115,104>>,  \* "AUTO_FIX: git stash"
             <<65,85,84,79,95,70,73,88,58,103,105,116,32,102,101,116,99,104,32,111,32>>,  \* "AUTO_FIX:git fetch o "
             <<65,85,84,79,95,70,73,88,58,32,114,109,32,45,114,102,32,47>>,  \* "AUTO_FIX: rm -rf /"
             <<65,85,84,79,95,70,73,88,58,32,103,105,116,32,112,117,115,104,32,45,102>> }  \* "AUTO_FIX: git push -f"
AiTexts == {Join(<<10>>, ls) : ls \in UNION {[1..k -> AiLines] : k \in 0..MaxAiLines}}
AiOutcomes == {[how |-> "unconfigured", text |-> <<>>], [how |-> "error", text |-> <<>>]}
                  \cup {[how |-> "ok", text |-> t] : t \in AiTexts}
\* "", " ", "e"
ErrorOutputs == { <<>>, <<32>>, <<101>> }

\* behaviours of the child process
ProcOutcomes == {
    [how |-> "missing", stdout |-> <<>>, stderr |-> <<>>],
    [how |-> "timeout", stdout |-> <<>>, stderr |-> <<>>],
    [how |-> "nonzero", stdout |-> <<97>>, stderr |-> <<32,101,10>>],
    [how |-> "exit0", stdout |-> <<97,10>>, stderr |-> <<101>>],
    [how |-> "exit0", stdout |-> <<49,31,50,31,51,31,52,31,53,31,54,10,97,31,98,10>>,
                      stderr |-> <<>>] }

\* behaviours of the child process of git commit: it has created the commit
\* when it exits 0 and has not when it exits non-zero or does not exist; one
\* that is killed at the timeout has or has not created it by then
CommitOutcomes ==
    {[how |-> x.how, stdout |-> x.stdout, stderr |-> x.stderr, committed |-> x.how = "exit0"] :
         x \in ProcOutcomes}
      \cup {[how |-> "timeout", stdout |-> <<>>, stderr |-> <<>>, committed |-> TRUE]}

\* outputs of git status --porcelain=v1 --branch: a header line followed by
\* up to MaxLines status lines
\* header lines: with upstream and counts, without, and malformed ones
HeaderLines == {
    <<35,35,32,109,97,105,110,46,46,46,111,114,105,103,105,110,47,109,97,105,110,32,91,97,104,101,97,100,32,50,44,32,98,101,104,105,110,100,32,49,93>>,  \* "## main...origin/main [ahead 2, behind 1]"
    <<35,35,32,109,97,105,110,46,46,46,111,114,105,103,105,110,47,109,97,105,110,32,91,97,104,101,97,100,32,49,50,93>>,  \* "## main...origin/main [ahead 12]"
    <<35,35,32,109,97,105,110,46,46,46,111,114,105,103,105,110,47,109,97,105,110,32,91,98,101,104,105,110,100,32,49,48,93>>,  \* "## main...origin/main [behind 10]"
    <<35,35,32,109,97,105,110,46,46,46,111,114,105,103,105,110,47,109,97,105,110>>,  \* "## main...origin/main"
    <<35,35,32,109,97,105,110>>,  \* "## main"
    <<35,35,32,109,97,105,110,46,46,46,111,114,105,103,105,110,47,109,97,105,110,32,91,103,111,110,101,93>>,  \* "## main...origin/main [gone]"
    <<35,35,32,109,97,105,110,46,46,46,111,114,105,103,105,110,47,109,97,105,110,32,91,97,104,101,97,100,32,50>>,  \* "## main...origin/main [ahead 2"
    <<35,35,32,109,97,105,110,46,46,46,111,114,105,103,105,110,47,109,97,105,110,32,91,97,104,101,97,100,32,120,93>>,  \* "## main...origin/main [ahead x]"
    <<109,97,105,110>> }  \* "main"

\* index and work-tree codes of tracked, renamed and untracked files
StatusCodes == {
    <<77,32>>,  \* "M "
    <<32,77>>,  \* " M"
    <<77,77>>,  \* "MM"
    <<65,32>>,  \* "A "
    <<82,77>>,  \* "RM"
    <<63,63>> }  \* "??"

\* a path, and the two names of a rename
StatusPaths == {
    <<97>>,  \* "a"
    <<111,32,45,62,32,110>> }  \* "o -> n"

StatusLineSet == {c \o <<32>> \o q : c \in StatusCodes, q \in StatusPaths} \cup { <<77>> }  \* "M"
RECURSIVE Lines(_)
\* the text made of the given lines, each ended by a newline
Lines(ls) == IF ls = <<>> THEN <<>> ELSE ls[1] \o <<10>> \o Lines(Tail(ls))
Bodies(lineset, n) == {Lines(ls) : ls \in UNION {[1..k -> lineset] : k \in 0..n}}
StatusOutputs ==
    {Lines(<<h>>) \o b : h \in HeaderLines,
                         b \in Bodies({ <<77,32,32,97>>, <<63,63,32,98>> }, 1)}  \* "M  a" "?? b"
      \cup {Lines(<<h>>) \o b : h \in { <<35,35,32,109,97,105,110,46,46,46,111,114,105,103,105,110,47,109,97,105,110,32,91,97,104,101,97,100,32,50,44,32,98,101,104,105,110,100,32,49,93>> },
                                b \in Bodies(StatusLineSet, MaxLines)}
      \cup Bodies({ <<77,32,32,97>>, <<63,63,32,98>> }, 2)
StatusOutcomes == ProcOutcomes \cup {[how |-> "exit0", stdout |-> t, stderr |-> <<>>] : t \in StatusOutputs}

\* lines given to _parse_porcelain directly
PorcelainLines == {
    <<>>,  \* ""
    <<77>>,  \* "M"
    <<77,32,97>>,  \* "M a"
    <<77,32,32,97>>,  \* "M  a"
    <<82,32,32,111,108,100,46,116,120,116,32,45,62,32,110,101,119,46,116,120,116>>,  \* "R  old.txt -> new.txt"
    <<63,63,32,98,32,99>>,  \* "?? b c"
    <<33,33,32,97>>,  \* "!! a"
    <<32,77,32,97,32,45,62,32,98,32,45,62,32,99>>,  \* " M a -> b -> c"
    <<77,77,32,120,32,45,62,32,45,62,32,121>> }  \* "MM x -> -> y"
PorcelainTexts == Bodies(PorcelainLines, MaxLines)

\* the codes of a FileStatus: " ", "M", "A", "D", "R", "C", "U", "?", "!"
FileCodes == {32, 77, 65, 68, 82, 67, 85, 63, 33}

\* lines of unit-separated fields: the first k of "a", "*" or " ", "c", "d",
\* "e" or "x, ,y", "f", "g" for k from 3 to 7, and the empty line
RecordLineSet ==
    { Join(<<UnitSep>>, SubSeq(<< <<97>>, f2, <<99>>, <<100>>, f5, <<102>>, <<103>> >>, 1, k)) :
          f2 \in { <<42>>, <<32>> }, f5 \in { <<101>>, <<120,44,32,44,121>> }, k \in 3..7 }
      \cup { <<>> }
RecordOutcomes == ProcOutcomes \cup {[how |-> "exit0", stdout |-> t, stderr |-> <<>>] :
                                         t \in Bodies(RecordLineSet, MaxLines)}

\* lines of git remote -v for the remotes "a" and "b" and the urls "u" and
\* "v", a line of two fields and the empty line
RemoteLineSet ==
    { n \o <<9>> \o u \o <<32>> \o d : n \in { <<97>>, <<98>> }, u \in { <<117>>, <<118>> },
                                       d \in { <<40,102,101,116,99,104,41>>, <<40,112,117,115,104,41>> } }  \* "(fetch)" "(push)"
      \cup { <<97,9,117>>, <<>> }
RemoteOutcomes == ProcOutcomes \cup {[how |-> "exit0", stdout |-> t, stderr |-> <<>>] :
                                         t \in Bodies(RemoteLineSet, MaxLines)}

\* get_log: every limit and branch with the fixed outputs, and every output
\* of records with the default limit and no branch
GetLogInputs ==
    {[limit |-> n, branch |-> b, px |-> x] :
         n \in Limits, b \in {None} \cup {Some(t) : t \in ArgNames}, x \in ProcOutcomes}
      \cup {[limit |-> 30, branch |-> None, px |-> x] : x \in RecordOutcomes}

----------------------------------------------------------------------------
(* Requests in flight (main.py, status.py).  uvicorn.run starts one        *)
(* process with one event loop; every route is an "async def" coroutine    *)
(* that the loop runs on its own thread, and none of them awaits while it  *)
(* calls the service: from the start of a handler to its return, the child *)
(* process of run_git included, the loop runs nothing else.                *)

Requests == {1, 2}

\* the routes of the status router, and GET /health
GitHandlers == {"repo_status", "stage", "unstage", "stage_all_files", "staged_diff"}

Quick == [how |-> "exit0", stdout |-> <<>>, stderr |-> <<>>]
Late == [how |-> "timeout", stdout |-> <<>>, stderr |-> <<>>]
Failing == [how |-> "nonzero", stdout |-> <<>>, stderr |-> <<101>>]  \* "e"
Exiting == [how |-> "exit0", stdout |-> <<35,35,32,109,10,77,32,32,97,10>>, stderr |-> <<>>]  \* "## m\nM  a\n"

\* the file path of a request to the handler h
PathFor(h) == IF h \in {"stage", "unstage"} THEN <<97>> ELSE <<>>  \* "a"

\* the requests a client sends: the route, its inputs, what the child
\* process does and for how long it runs when it exits by itself.  Every
\* route with a child that is still running at the timeout and with one that
\* succeeds, and some requests that fail or start no process.
ServerRequests ==
    {[handler |-> "health", file_path |-> <<>>, repo_path |-> None, px |-> Quick, took |-> 0]}
      \cup {[handler |-> h, file_path |-> PathFor(h), repo_path |-> None, px |-> Late, took |-> 0] :
                 h \in GitHandlers}
      \cup {[handler |-> h, file_path |-> PathFor(h), repo_path |-> None, px |-> Exiting, took |-> t] :
                 h \in GitHandlers, t \in 0..MaxRun}
      \cup {[handler |-> "stage", file_path |-> <<97>>, repo_path |-> None, px |-> Failing, took |-> MaxRun],
             [handler |-> "stage", file_path |-> <<45,97>>, repo_path |-> None, px |-> Quick, took |-> 0],  \* "-a"
             [handler |-> "repo_status", file_path |-> <<>>, repo_path |-> Some(<<47,120>>), px |-> Quick, took |-> 0]}  \* "/x"

\* what the handler of request q does
Handle(q) ==
    CASE q.handler = "health" -> health
      [] q.handler = "repo_status" -> repo_status(q.repo_path, q.px)
      [] q.handler = "stage" -> stage(q.file_path, q.repo_path, q.px)
      [] q.handler = "unstage" -> unstage(q.file_path, q.repo_path, q.px)
      [] q.handler = "stage_all_files" -> stage_all_files(q.repo_path, q.px)
      [] q.handler = "staged_diff" -> staged_diff(q.repo_path, q.px)

\* the seconds the handler of q spends in subprocess.run: none without a
\* child process, the whole timeout when the child has to be killed
RunTime(q) ==
    Once(Handle(q),
         LAMBDA e :
             IF e.procs = <<>> \/ e.procs[1].child = "none" THEN 0
             ELSE IF e.procs[1].child = "killed" THEN e.procs[1].timeout
             ELSE q.took)

\* a request is absent (not sent), pending (accepted, its handler not yet
\* started), running or done; waited counts the seconds it has been pending
\* while the child process of another request ran
NoRequest == [state |-> "absent", q |-> [handler |-> "health", file_path |-> <<>>, repo_path |-> None,
                                         px |-> Quick, took |-> 0],
              waited |-> 0, resp |-> "none"]
LoopFree == [holder |-> 0, elapsed |-> 0]

----------------------------------------------------------------------------
(* The state machine: one request is handled at a time; op names the       *)
(* operation whose outcome the state holds, "idle" between two requests.   *)

Init ==
    /\ op = "idle"
    /\ in_str = <<>>
    /\ in_opt = None
    /\ in_flag = FALSE
    /\ in_int = 0
    /\ in_repo = None
    /\ ret = Returned(<<>>)
    /\ calls = <<>>
    /\ spawned = <<>>
    /\ procs = <<>>
    /\ replies = <<>>
    /\ committed = FALSE
    /\ fs \in {f \in [Dirs -> {"absent", "dir", "repo"}] : f[Cwd] # "absent"}
    /\ requests = [r \in Requests |-> NoRequest]
    /\ loop = LoopFree

\* the state after operation o on the given inputs with effect e
Done(o, s, opt, flag, n, repo, e) ==
    /\ op' = o
    /\ in_str' = s
    /\ in_opt' = opt
    /\ in_flag' = flag
    /\ in_int' = n
    /\ in_repo' = repo
    /\ ret' = e.ret
    /\ calls' = e.calls
    /\ spawned' = e.spawned
    /\ procs' = e.procs
    /\ replies' = e.replies
    /\ committed' = e.committed
    /\ UNCHANGED <<fs, requests, loop>>

Pure(r) == Effect(r, <<>>, <<>>)

IsSafeAutoFix ==
    /\ op = "idle"
    /\ \E cmd \in Commands :
           Done("_is_safe_auto_fix", cmd, None, FALSE, 0, None,
                Pure([Returned(<<>>) EXCEPT !.b = _is_safe_auto_fix(cmd)]))

IsValidRefName ==
    /\ op = "idle"
    /\ \E name \in RefNames :
           Done("_is_valid_ref_name", name, None, FALSE, 0, None,
                Pure([Returned(<<>>) EXCEPT !.b = _is_valid_ref_name(name)]))

SanitizeCommitMessage ==
    /\ op = "idle"
    /\ \E message \in Messages :
           Done("_sanitize_commit_message", message, None, FALSE, 0, None,
                Pure(Returned(_sanitize_commit_message(message))))

ResolveRepo ==
    /\ op = "idle"
    /\ \E repo_path \in RepoPaths :
           LET r == _resolve_repo(repo_path)
           IN  Done("_resolve_repo", <<>>, None, FALSE, 0, repo_path,
                    Pure(IF r.kind = "ok" THEN Returned(r.path) ELSE Raised(r.kind, <<>>, <<>>)))

IsRepo ==
    /\ op = "idle"
    /\ \E repo_path \in RepoPaths \ {None} :
           LET r == is_repo(repo_path.v)
           IN  Done("is_repo", <<>>, None, FALSE, 0, repo_path,
                    Pure(IF r.kind = "ok" THEN [Returned(<<>>) EXCEPT !.b = r.b]
                         ELSE Raised(r.kind, <<>>, <<>>)))

RunGit ==
    /\ op = "idle"
    /\ \E args \in GitArgs, repo_path \in ServiceRepoPaths, px \in ProcOutcomes :
           Done("run_git", <<>>, None, FALSE, 0, repo_path, run_git(args, repo_path, px))

DiagnoseError ==
    /\ op = "idle"
    /\ \E error_output \in ErrorOutputs, ai \in AiOutcomes :
           Done("diagnose_error", error_output, None, FALSE, 0, None,
                diagnose_error(error_output, None, ai))

FileOut ==
    /\ op = "idle"
    /\ \E x \in FileCodes, y \in FileCodes :
           Done("_file_out", <<x, y>>, None, FALSE, 0, None,
                Pure([Returned(<<>>) EXCEPT !.recs =
                         _file_out([path |-> <<97>>, index_status |-> x, work_status |-> y])]))

ParsePorcelain ==
    /\ op = "idle"
    /\ \E output \in PorcelainTexts :
           Done("_parse_porcelain", output, None, FALSE, 0, None,
                Pure([Returned(<<>>) EXCEPT !.recs = _parse_porcelain(output)]))

GetStatus ==
    /\ op = "idle"
    /\ \E repo_path \in ServiceRepoPaths, px \in StatusOutcomes :
           Done("get_status", <<>>, None, FALSE, 0, repo_path, get_status(repo_path, px))

CreateBranch ==
    /\ op = "idle"
    /\ \E name \in ArgNames, checkout \in BOOLEAN, repo_path \in ServiceRepoPaths, px \in ProcOutcomes :
           Done("create_branch", name, None, checkout, 0, repo_path,
                create_branch(name, checkout, repo_path, px))

CheckoutBranch ==
    /\ op = "idle"
    /\ \E name \in ArgNames, repo_path \in ServiceRepoPaths, px \in ProcOutcomes :
           Done("checkout_branch", name, None, FALSE, 0, repo_path,
                checkout_branch(name, repo_path, px))

DeleteBranch ==
    /\ op = "idle"
    /\ \E name \in ArgNames, force \in BOOLEAN, repo_path \in ServiceRepoPaths, px \in ProcOutcomes :
           Done("delete_branch", name, None, force, 0, repo_path,
                delete_branch(name, force, repo_path, px))

MergeBranch ==
    /\ op = "idle"
    /\ \E source \in ArgNames, repo_path \in ServiceRepoPaths, px \in ProcOutcomes :
           Done("merge_branch", source, None, FALSE, 0, repo_path,
                merge_branch(source, repo_path, px))

GetLog ==
    /\ op = "idle"
    /\ \E i \in GetLogInputs, repo_path \in ServiceRepoPaths :
           Done("get_log", <<>>, i.branch, FALSE, i.limit, repo_path,
                get_log(i.limit, i.branch, repo_path, i.px))

ListBranches ==
    /\ op = "idle"
    /\ \E repo_path \in ServiceRepoPaths, px \in RecordOutcomes :
           Done("list_branches", <<>>, None, FALSE, 0, repo_path, list_branches(repo_path, px))

GetBranchGraph ==
    /\ op = "idle"
    /\ \E repo_path \in ServiceRepoPaths, px \in RecordOutcomes :
           Done("get_branch_graph", <<>>, None, FALSE, 0, repo_path,
                get_branch_graph(repo_path, px))

ListRemotes ==
    /\ op = "idle"
    /\ \E repo_path \in ServiceRepoPaths, px \in RemoteOutcomes :
           Done("list_remotes", <<>>, None, FALSE, 0, repo_path, list_remotes(repo_path, px))

CreateCommit ==
    /\ op = "idle"
    /\ \E message \in CommitMessages, repo_path \in ServiceRepoPaths,
          px1 \in CommitOutcomes, px2 \in ProcOutcomes :
           Done("create_commit", message, None, FALSE, 0, repo_path,
                create_commit(message, repo_path, px1, px2))

StageFile ==
    /\ op = "idle"
    /\ \E file_path \in FilePaths, repo_path \in ServiceRepoPaths, px \in ProcOutcomes :
           Done("stage_file", file_path, None, FALSE, 0, repo_path,
                Dropped(stage_file(file_path, repo_path, px)))

UnstageFile ==
    /\ op = "idle"
    /\ \E file_path \in FilePaths, repo_path \in ServiceRepoPaths, px \in ProcOutcomes :
           Done("unstage_file", file_path, None, FALSE, 0, repo_path,
                Dropped(unstage_file(file_path, repo_path, px)))

ApiStage ==
    /\ op = "idle"
    /\ \E file_path \in FilePaths, repo_path \in ServiceRepoPaths, px \in ProcOutcomes :
           Done("stage", file_path, None, FALSE, 0, repo_path,
                stage(file_path, repo_path, px))

ApiUnstage ==
    /\ op = "idle"
    /\ \E file_path \in FilePaths, repo_path \in ServiceRepoPaths, px \in ProcOutcomes :
           Done("unstage", file_path, None, FALSE, 0, repo_path,
                unstage(file_path, repo_path, px))

Fetch ==
    /\ op = "idle"
    /\ \E remote \in RemoteNames, repo_path \in ServiceRepoPaths, px \in ProcOutcomes :
           Done("fetch", remote, None, FALSE, 0, repo_path, fetch(remote, repo_path, px))

Pull ==
    /\ op = "idle"
    /\ \E remote \in RemoteNames, branch \in OptBranches, repo_path \in ServiceRepoPaths,
          px \in ProcOutcomes :
           Done("pull", remote, branch, FALSE, 0, repo_path, pull(remote, branch, repo_path, px))

Push ==
    /\ op = "idle"
    /\ \E remote \in RemoteNames, branch \in OptBranches, repo_path \in ServiceRepoPaths,
          px \in ProcOutcomes :
           Done("push", remote, branch, FALSE, 0, repo_path, push(remote, branch, repo_path, px))

ApiFetch ==
    /\ op = "idle"
    /\ \E remote \in RemoteNames, repo_path \in ServiceRepoPaths, px \in ProcOutcomes :
           Done("do_fetch", remote, None, FALSE, 0, repo_path, do_fetch(remote, repo_path, px))

ApiPull ==
    /\ op = "idle"
    /\ \E remote \in RemoteNames, branch \in OptBranches, repo_path \in ServiceRepoPaths,
          px \in ProcOutcomes :
           Done("do_pull", remote, branch, FALSE, 0, repo_path,
                do_pull(remote, branch, repo_path, px))

ApiPush ==
    /\ op = "idle"
    /\ \E remote \in RemoteNames, branch \in OptBranches, repo_path \in ServiceRepoPaths,
          px \in ProcOutcomes :
           Done("do_push", remote, branch, FALSE, 0, repo_path,
                do_push(remote, branch, repo_path, px))

\* the response has been delivered; the next request may be handled
Return ==
    /\ op # "idle"
    /\ op' = "idle"
    /\ in_str' = <<>>
    /\ in_opt' = None
    /\ in_flag' = FALSE
    /\ in_int' = 0
    /\ in_repo' = None
    /\ ret' = Returned(<<>>)
    /\ calls' = <<>>
    /\ spawned' = <<>>
    /\ procs' = <<>>
    /\ replies' = <<>>
    /\ committed' = FALSE
    /\ UNCHANGED <<fs, requests, loop>>

\* between two requests the directories change under the server
ChangeDir ==
    /\ op = "idle"
    /\ \E d \in Dirs, k \in {"absent", "dir", "repo"} :
          /\ fs[d] # k
          /\ fs' = [fs EXCEPT ![d] = k]
    /\ UNCHANGED <<op, in_str, in_opt, in_flag, in_int, in_repo, ret, calls, spawned, procs, replies,
                   committed, requests, loop>>

Next ==
    \/ IsSafeAutoFix
    \/ IsValidRefName
    \/ SanitizeCommitMessage
    \/ ResolveRepo
    \/ IsRepo
    \/ RunGit
    \/ DiagnoseError
    \/ FileOut
    \/ ParsePorcelain
    \/ GetStatus
    \/ CreateBranch
    \/ CheckoutBranch
    \/ DeleteBranch
    \/ MergeBranch
    \/ GetLog
    \/ ListBranches
    \/ GetBranchGraph
    \/ ListRemotes
    \/ CreateCommit
    \/ StageFile
    \/ UnstageFile
    \/ ApiStage
    \/ ApiUnstage
    \/ Fetch
    \/ Pull
    \/ Push
    \/ ApiFetch
    \/ ApiPull
    \/ ApiPush
    \/ Return
    \/ ChangeDir

Spec == Init /\ [][Next]_vars

----------------------------------------------------------------------------
(* The server with two clients *)

\* a client sends request r
Arrive(r) ==
    /\ requests[r].state = "absent"
    /\ \E q \in ServerRequests :
           requests' = [requests EXCEPT ![r] = [state |-> "pending", q |-> q, waited |-> 0, resp |-> "none"]]
    /\ UNCHANGED <<op, in_str, in_opt, in_flag, in_int, in_repo, ret, calls, spawned, procs, replies,
                   committed, fs, loop>>

\* the event loop, running no handler, starts the handler of r, which runs
\* up to its call of subprocess.run
Start(r) ==
    /\ requests[r].state = "pending"
    /\ loop.holder = 0
    /\ requests' = [requests EXCEPT ![r].state = "running"]
    /\ loop' = [holder |-> r, elapsed |-> 0]
    /\ UNCHANGED <<op, in_str, in_opt, in_flag, in_int, in_repo, ret, calls, spawned, procs, replies,
                   committed, fs>>

\* a second passes while the handler that holds the loop is in
\* subprocess.run
Tick ==
    /\ loop.holder # 0
    /\ loop.elapsed < RunTime(requests[loop.holder].q)
    /\ loop' = [loop EXCEPT !.elapsed = @ + 1]
    /\ requests' = [r \in Requests |->
                       IF requests[r].state = "pending"
                       THEN [requests[r] EXCEPT !.waited = @ + 1] ELSE requests[r]]
    /\ UNCHANGED <<op, in_str, in_opt, in_flag, in_int, in_repo, ret, calls, spawned, procs, replies,
                   committed, fs>>

\* subprocess.run has returned or raised: the handler of r ends and the
\* loop is free again
Finish(r) ==
    /\ loop.holder = r
    /\ loop.elapsed = RunTime(requests[r].q)
    /\ requests' = [requests EXCEPT ![r].state = "done", ![r].resp = Handle(requests[r].q).ret.kind]
    /\ loop' = LoopFree
    /\ UNCHANGED <<op, in_str, in_opt, in_flag, in_int, in_repo, ret, calls, spawned, procs, replies,
                   committed, fs>>

ServerNext ==
    \/ \E r \in Requests : Arrive(r)
    \/ \E r \in Requests : Start(r)
    \/ Tick
    \/ \E r \in Requests : Finish(r)

ServerSpec == Init /\ [][ServerNext]_vars

----------------------------------------------------------------------------
(* Properties *)

\* the repository a call without repo_path works on is a repository
DefaultIsRepo == fs[DEFAULT_REPO_PATH] = "repo"

\* C1: every candidate command that contains "&&", ";" or "|" is rejected by
\* _is_safe_auto_fix.
C1_ChainedCommandsRejected ==
    (op = "_is_safe_auto_fix"
        /\ (Contains(in_str, <<38,38>>) \/ Contains(in_str, <<59>>) \/ Contains(in_str, <<124>>)))
    => ~ret.b

AcceptedLiterals == {
    <<103,105,116,32,102,101,116,99,104>>,
    <<103,105,116,32,102,101,116,99,104,32,111,114,105,103,105,110>>,
    <<103,105,116,32,115,116,97,115,104>>,
    <<103,105,116,32,115,116,97,115,104,32,112,111,112>>,
    <<103,105,116,32,109,101,114,103,101,32,45,45,97,98,111,114,116>>,
    <<103,105,116,32,114,101,98,97,115,101,32,45,45,97,98,111,114,116>> }
RejectedLiterals == {
    <<103,105,116,32,102,101,116,99,104,32,38,38,32,114,109,32,45,114,102,32,47>>,
    <<103,105,116,32,112,117,115,104,32,111,114,105,103,105,110,32,45,45,102,111,114,99,101>>,
    <<103,105,116,32,114,101,115,101,116,32,45,45,104,97,114,100,32,72,69,65,68,126,53>>,
    <<114,109,32,45,114,102,32,47>>,
    <<>> }

\* C2: _is_safe_auto_fix accepts "git fetch", "git fetch origin", "git stash",
\* "git stash pop", "git merge --abort" and "git rebase --abort", and rejects
\* "git fetch && rm -rf /", "git push origin --force",
\* "git reset --hard HEAD~5", "rm -rf /" and the empty string.
C2_WhitelistLiterals ==
    op = "_is_safe_auto_fix" =>
        /\ in_str \in AcceptedLiterals => ret.b
        /\ in_str \in RejectedLiterals => ~ret.b

\* "git fetch origin" has been accepted
C2_Witness ==
    /\ op = "_is_safe_auto_fix"
    /\ in_str = <<103,105,116,32,102,101,116,99,104,32,111,114,105,103,105,110>>
    /\ ret.b

\* the positions, in the operation arguments of a process started by the
\* operation in hand, that hold a string supplied by the caller (the value
\* of "commit -m" excepted)
UserArgPositions(args) ==
    CASE op \in {"create_branch", "checkout_branch", "delete_branch", "merge_branch",
                 "stage_file", "unstage_file", "stage", "unstage",
                 "fetch", "do_fetch"} -> {Len(args)}
      [] op = "get_log" -> IF Truthy(in_opt) THEN {Len(args)} ELSE {}
      [] op \in {"pull", "push", "do_pull", "do_push"} -> 2..Len(args)
      [] OTHER -> {}

\* C3: no caller-supplied positional argument that begins with "-" is handed
\* to a process unless a "--" separator precedes it in the vector.
C3_NoFlagInjection ==
    \A k \in 1..Len(spawned) :
        LET args == SubSeq(spawned[k], 4, Len(spawned[k]))
        IN  \A i \in UserArgPositions(args) :
                StartsWith(args[i], <<45>>) => \E j \in 1..(i - 1) : args[j] = <<45,45>>

\* C4: in create_branch, checkout_branch, delete_branch, merge_branch and
\* get_log with a branch, a name that _is_valid_ref_name rejects makes the call
\* fail with the validation error, and neither run_git is called nor a process
\* started.
C4_ValidationBeforeExecution ==
    LET rejected ==
            \/ op \in {"create_branch", "checkout_branch", "delete_branch", "merge_branch"}
                 /\ ~_is_valid_ref_name(in_str)
            \/ op = "get_log" /\ Truthy(in_opt) /\ ~_is_valid_ref_name(in_opt.v)
    IN  rejected => ret.kind = "ValueError" /\ calls = <<>> /\ spawned = <<>>

\* merge_branch has refused a name that starts with "-" although the
\* repository resolves
C4_Witness ==
    /\ op = "merge_branch"
    /\ StartsWith(in_str, <<45>>)
    /\ in_repo = None
    /\ DefaultIsRepo
    /\ ret.kind = "ValueError"
    /\ spawned = <<>>

ForbiddenChars == {0, 92, 126, 94, 58, 63, 42, 91}   \* NUL \ ~ ^ : ? * [

\* C5: _is_valid_ref_name rejects every name that is empty, is longer than
\* 250 characters, starts with "-", or contains a whitespace character, NUL,
\* backslash, "..", or one of ~ ^ : ? * [.
C5_RefNameRejects ==
    (op = "_is_valid_ref_name"
        /\ \/ in_str = <<>>
           \/ Len(in_str) > 250
           \/ StartsWith(in_str, <<45>>)
           \/ \E i \in 1..Len(in_str) : in_str[i] \in PyWhitespace \cup ForbiddenChars
           \/ Contains(in_str, <<46,46>>))
    => ~ret.b

\* letters, digits, "/", "-", "_"
OrdinaryChars == (65..90) \cup (97..122) \cup (48..57) \cup {47, 45, 95}
OrdinaryForm(s) == Len(s) < 250 /\ \A i \in 1..Len(s) : s[i] \in OrdinaryChars

\* C6 as stated: every name of fewer than 250 characters made only of letters,
\* digits, "/", "-" and "_" is accepted.
C6_OrdinaryAccepted ==
    (op = "_is_valid_ref_name" /\ OrdinaryForm(in_str)) => ret.b

\* C6: every non-empty name of fewer than 250 characters made only of
\* letters, digits, "/", "-" and "_" that does not start with "-" is accepted.
C6_OrdinaryAcceptedAmended ==
    (op = "_is_valid_ref_name" /\ OrdinaryForm(in_str)
        /\ in_str # <<>> /\ ~StartsWith(in_str, <<45>>))
    => ret.b

\* a name with "-" and "/" inside has been accepted
C6_Witness ==
    /\ op = "_is_valid_ref_name"
    /\ OrdinaryForm(in_str)
    /\ Contains(in_str, <<45>>) \/ Contains(in_str, <<47>>)
    /\ ~StartsWith(in_str, <<45>>)
    /\ ret.b

\* C7: stage_file and unstage_file fail with the validation error and start no
\* process for a path that is empty, starts with "-" or contains NUL; for every
\* other path they make exactly one invocation, with the path after "--".
C7_FilePathValidation ==
    op \in {"stage_file", "unstage_file"} =>
        IF in_str = <<>> \/ StartsWith(in_str, <<45>>) \/ Contains(in_str, <<0>>)
        THEN ret.kind = "ValueError" /\ calls = <<>> /\ spawned = <<>>
        ELSE /\ Len(calls) = 1
             /\ Len(calls[1]) >= 2
             /\ calls[1][Len(calls[1])] = in_str
             /\ calls[1][Len(calls[1]) - 1] = <<45,45>>

\* no ASCII control character but "\n" and "\t", no whitespace at either end
CleanText(s) ==
    /\ \A i \in 1..Len(s) : s[i] \notin ((0..31) \cup {127}) \ {9, 10}
    /\ s # <<>> => s[1] \notin PyWhitespace /\ s[Len(s)] \notin PyWhitespace

\* C8: the sanitized message has no ASCII control character other than
\* newline and tab and no whitespace at its ends; create_commit fails with the
\* validation error, without any invocation, when the sanitized message is
\* empty or longer than 4096 characters, and otherwise passes exactly the
\* sanitized message after "-m".
C8_CommitGate ==
    /\ op = "_sanitize_commit_message" => CleanText(ret.s)
    /\ op = "create_commit" =>
          LET sanitized == _sanitize_commit_message(in_str)
          IN  IF sanitized = <<>> \/ Len(sanitized) > 4096
              THEN ret.kind = "ValueError" /\ calls = <<>> /\ spawned = <<>>
              ELSE /\ CleanText(sanitized)
                   /\ calls # <<>>
                   /\ calls[1] = << <<99,111,109,109,105,116>>, <<45,109>>, sanitized >>
                   /\ \A k \in 1..Len(spawned) :
                         spawned[k][4] = <<99,111,109,109,105,116>>
                             => spawned[k][5] = <<45,109>> /\ spawned[k][6] = sanitized

\* a commit process has been started with a message of 4096 characters that
\* differs from the message given
C8_Witness ==
    /\ op = "create_commit"
    /\ spawned # <<>>
    /\ Len(spawned[1][6]) = 4096
    /\ spawned[1][6] # in_str

\* C9: sanitizing a sanitized commit message changes nothing.
C9_SanitizeIdempotent ==
    op = "_sanitize_commit_message" => _sanitize_commit_message(ret.s) = ret.s

\* a message with a control character in front of a blank has been sanitized
C9_Witness ==
    /\ op = "_sanitize_commit_message"
    /\ \E i \in 1..(Len(in_str) - 1) : in_str[i] \in ControlChars /\ in_str[i + 1] = 32
    /\ ret.s # <<>>
    /\ ret.s # in_str

\* C10: _resolve_repo fails with InvalidPath when the canonical path does not
\* exist, with RepoNotFound when it exists without ".git", and returns the
\* canonical path otherwise; is_repo returns True exactly in the last case and
\* never raises.
C10_ResolverOutcome ==
    LET raw == IF Truthy(in_repo) THEN in_repo.v ELSE DEFAULT_REPO_PATH
        canonical == PathResolve(raw)
        missing == ~Exists(canonical)
        bare == Exists(canonical) /\ ~Exists(PathJoin(canonical, DotGit))
    IN  /\ op = "_resolve_repo" =>
              /\ missing => ret.kind = "InvalidPathError"
              /\ bare => ret.kind = "RepoNotFoundError"
              /\ ~missing /\ ~bare => ret.kind = "ok" /\ ret.s = canonical
        /\ op = "is_repo" =>
              /\ ret.kind = "ok"
              /\ ret.b = (~missing /\ ~bare)

----------------------------------------------------------------------------
(* The executor *)

\* the kind of outcome a caller of run_git reads off what it got back
OutcomeOf(r) ==
    CASE r.kind = "ok" -> "exit0"
      [] r.kind = "GitCommandError" /\ r.msg = MSG_NOT_FOUND -> "missing"
      [] r.kind = "GitCommandError" /\ r.msg = MSG_TIMEOUT -> "timeout"
      [] r.kind = "GitCommandError" /\ StartsWith(r.msg, MSG_FAILED) -> "nonzero"
      [] OTHER -> "other"

\* C11: once the repository is resolved, run_git maps the outcome of the
\* child process as follows: no executable, an expired timeout and a
\* non-zero exit each raise a failure the caller can tell from the other
\* two; the failure of a non-zero exit carries the trimmed stderr and names
\* only the first two arguments; exit code 0 returns the raw stdout.  Stdout
\* is returned only on exit code 0 and stderr only inside a failure.
C11_OutcomeMapping ==
    (op = "run_git" /\ procs # <<>>) =>
        LET p == procs[1]
            args == calls[1]
            summary == IF Len(args) <= 2 THEN Join(<<32>>, args)
                       ELSE args[1] \o <<32>> \o args[2]
        IN  /\ OutcomeOf(ret) = p.how
            /\ p.how = "exit0" => ret.s = p.stdout /\ ret.stderr = <<>>
            /\ p.how # "exit0" => ret.kind = "GitCommandError" /\ ret.s = <<>>
            /\ p.how = "nonzero" => /\ ret.msg = MSG_FAILED \o summary
                                    /\ ret.stderr = Strip(p.stderr)
            /\ p.how \in {"missing", "timeout"} => ret.stderr = <<>>

\* a command of three arguments has failed with output on both streams
C11_Witness ==
    /\ op = "run_git"
    /\ procs # <<>>
    /\ procs[1].how = "nonzero"
    /\ Len(calls[1]) = 3
    /\ procs[1].stdout # <<>>
    /\ procs[1].stderr # ret.stderr

\* C12: a git invocation that is still running when the 30-second timeout
\* expires makes the operation fail with the timeout failure, and once an
\* operation has returned or raised none of the child processes it started
\* is still running.
C12_NoChildOutlivesCall ==
    \A k \in 1..Len(procs) :
        /\ procs[k].child # "running"
        /\ procs[k].how = "timeout" =>
              /\ procs[k].timeout = 30
              /\ procs[k].child = "killed"
              /\ k = Len(procs)
              /\ OutcomeOf(ret) = "timeout"

\* the second invocation of an operation has run into the timeout
C12_Witness ==
    /\ Len(procs) = 2
    /\ procs[2].how = "timeout"
    /\ ret.kind = "GitCommandError"

----------------------------------------------------------------------------
(* Error diagnosis *)

\* the candidates of the AUTO_FIX lines of an answer
Candidates(text) ==
    LET lines == SplitLines(Strip(text))
    IN  { Strip(SubSeq(lines[k], 10, Len(lines[k]))) :
              k \in {j \in 1..Len(lines) : StartsWith(lines[j], AUTO_FIX)} }

\* C13: the auto_fix returned by diagnose_error is either None or a string
\* accepted by _is_safe_auto_fix; a candidate of an "AUTO_FIX:" line that
\* fails the whitelist is never returned, however many such lines the answer
\* has and in whatever order.
C13_AutoFixGated ==
    (op = "diagnose_error" /\ ret.kind = "ok") =>
        LET auto_fix == ret.recs.auto_fix
        IN  /\ auto_fix = None \/ (auto_fix.given /\ _is_safe_auto_fix(auto_fix.v))
            /\ \A c \in Candidates(replies[1].text) :
                   ~_is_safe_auto_fix(c) => auto_fix # Some(c)

\* an answer whose last AUTO_FIX line fails the whitelist after one that
\* passes it
C13_Witness ==
    /\ op = "diagnose_error"
    /\ ret.kind = "ok"
    /\ ret.recs.auto_fix = Some(<<103,105,116,32,115,116,97,115,104>>)  \* "git stash"
    /\ LET lines == SplitLines(replies[1].text)
       IN  /\ Len(lines) = 3
           /\ lines[3] = <<65,85,84,79,95,70,73,88,58,32,114,109,32,45,114,102,32,47>>  \* "AUTO_FIX: rm -rf /"

----------------------------------------------------------------------------
(* Repository status *)

\* the number of elements of a sequence that are equal to x
Count(seq, x) == Cardinality({i \in 1..Len(seq) : seq[i] = x})

\* the status lines get_status has parsed: those after the first line
ParsedFiles ==
    LET lines == SplitLines(procs[1].stdout)
    IN  _parse_porcelain(Join(<<10>>, SubSeq(lines, 2, Len(lines))))

\* C14: every file parsed by get_status is in exactly one of staged,
\* unstaged and untracked, except a file that is staged and also modified in
\* the work tree, which is once in staged and once in unstaged; untracked
\* shares no file with the other two lists; a file with codes "M " is in
\* staged only and a file with codes "??" in untracked only.
C14_ListMembership ==
    (op = "get_status" /\ ret.kind = "ok") =>
        \A k \in 1..Len(ParsedFiles) :
            LET f == ParsedFiles[k]
                n == Count(ParsedFiles, f)
                s == Count(ret.recs.staged, f)
                u == Count(ret.recs.unstaged, f)
                t == Count(ret.recs.untracked, f)
                both == f.index_status \notin {32, 63} /\ f.work_status \notin {32, 63}
            IN  /\ {s, u, t} \subseteq {0, n}
                /\ IF both THEN s = n /\ u = n /\ t = 0 ELSE s + u + t = n
                /\ t = n => s = 0 /\ u = 0
                /\ (f.index_status = 77 /\ f.work_status = 32) => s = n /\ u = 0 /\ t = 0
                /\ (f.index_status = 63 /\ f.work_status = 63) => s = 0 /\ u = 0 /\ t = n

\* a staged file and an untracked file have been listed together
C14_Witness ==
    /\ op = "get_status"
    /\ ret.kind = "ok"
    /\ Len(ParsedFiles) = 2
    /\ ParsedFiles[1].index_status = 77 /\ ParsedFiles[1].work_status = 77
    /\ ParsedFiles[2].index_status = 63
    /\ Len(ret.recs.staged) = 1 /\ Len(ret.recs.unstaged) = 1 /\ Len(ret.recs.untracked) = 1

\* the first line of the output of the child process, <<>> when it has none
FirstLine ==
    LET lines == SplitLines(procs[1].stdout)
    IN  IF lines = <<>> THEN <<>> ELSE lines[1]

\* header lines of the form "## <branch>...<upstream>" with both counts, one
\* count or none, and the values they stand for
WellFormedHeaders == {
    [line |-> <<35,35,32,109,97,105,110,46,46,46,111,114,105,103,105,110,47,109,97,105,110,32,91,97,104,101,97,100,32,50,44,32,98,101,104,105,110,100,32,49,93>>,  \* "## main...origin/main [ahead 2, behind 1]"
     branch |-> <<109,97,105,110>>, ahead |-> 2, behind |-> 1],
    [line |-> <<35,35,32,109,97,105,110,46,46,46,111,114,105,103,105,110,47,109,97,105,110,32,91,97,104,101,97,100,32,49,50,93>>,  \* "## main...origin/main [ahead 12]"
     branch |-> <<109,97,105,110>>, ahead |-> 12, behind |-> 0],
    [line |-> <<35,35,32,109,97,105,110,46,46,46,111,114,105,103,105,110,47,109,97,105,110,32,91,98,101,104,105,110,100,32,49,48,93>>,  \* "## main...origin/main [behind 10]"
     branch |-> <<109,97,105,110>>, ahead |-> 0, behind |-> 10],
    [line |-> <<35,35,32,109,97,105,110,46,46,46,111,114,105,103,105,110,47,109,97,105,110>>,  \* "## main...origin/main"
     branch |-> <<109,97,105,110>>, ahead |-> 0, behind |-> 0] }

\* C15: from a header "## <branch>...<upstream> [ahead N, behind M]", or one
\* with only ahead, only behind or no bracket, get_status returns that
\* branch, ahead = N and behind = M with 0 for a count that is missing; the
\* counts returned are never negative.
C15_HeaderParsed ==
    (op = "get_status" /\ procs # <<>> /\ procs[1].how = "exit0") =>
        /\ \A h \in WellFormedHeaders :
               FirstLine = h.line =>
                   /\ ret.kind = "ok"
                   /\ ret.recs.branch = h.branch
                   /\ ret.recs.ahead = h.ahead
                   /\ ret.recs.behind = h.behind
        /\ ret.kind = "ok" => ret.recs.ahead >= 0 /\ ret.recs.behind >= 0

\* a header with a count of two digits has been parsed
C15_Witness ==
    /\ op = "get_status"
    /\ ret.kind = "ok"
    /\ FirstLine = <<35,35,32,109,97,105,110,46,46,46,111,114,105,103,105,110,47,109,97,105,110,32,91,97,104,101,97,100,32,49,50,93>>  \* "## main...origin/main [ahead 12]"
    /\ ret.recs.ahead = 12

\* the lines of at least 4 characters among the lines from the k-th on
RECURSIVE LongLines(_, _)
LongLines(lines, k) ==
    IF k > Len(lines) THEN <<>>
    ELSE IF Len(lines[k]) >= 4 THEN <<lines[k]>> \o LongLines(lines, k + 1)
    ELSE LongLines(lines, k + 1)

\* the number of places of s where sub starts
Occurrences(s, sub) ==
    Cardinality({i \in 1..(Len(s) - Len(sub) + 1) : SubSeq(s, i, i + Len(sub) - 1) = sub})

\* C16: _parse_porcelain yields one record for every line of at least 4
\* characters, in order: the index code is the first character, the
\* work-tree code the second, and the path the text from offset 3, where
\* "old -> new" stands for new.
C16_PorcelainFields ==
    (op = "_parse_porcelain") =>
        LET long == LongLines(SplitLines(in_str), 1)
        IN  /\ Len(ret.recs) = Len(long)
            /\ \A k \in 1..Len(long) :
                   LET line == long[k]
                       text == SubSeq(line, 4, Len(line))
                       f == ret.recs[k]
                   IN  /\ f.index_status = line[1]
                       /\ f.work_status = line[2]
                       /\ Occurrences(text, ARROW) = 0 => f.path = text
                       /\ Occurrences(text, ARROW) = 1 =>
                              \E old \in {SubSeq(text, 1, n) : n \in 0..Len(text)} :
                                  text = old \o ARROW \o f.path
                       /\ Occurrences(text, ARROW) > 1 =>
                              \E n \in 1..(Len(text) - 3) :
                                  /\ SubSeq(text, n, n + 3) = ARROW
                                  /\ f.path = SubSeq(text, n + 4, Len(text))

\* the rename of old.txt to new.txt has been parsed after a line that is
\* too short
C16_Witness ==
    /\ op = "_parse_porcelain"
    /\ Len(SplitLines(in_str)) = 2
    /\ Len(ret.recs) = 1
    /\ ret.recs[1] = [path |-> <<110,101,119,46,116,120,116>>, index_status |-> 82, work_status |-> 32]  \* "new.txt" "R" " "

\* header lines with a count that is not a number
NonNumericHeaders == { <<35,35,32,109,97,105,110,46,46,46,111,114,105,103,105,110,47,109,97,105,110,32,91,97,104,101,97,100,32,120,93>> }  \* "## main...origin/main [ahead x]"

\* C17: when the header line is absent or malformed (no "## " prefix, a "["
\* without "]", or a count that is not a number), get_status does not fail:
\* it returns the branch "unknown" with ahead = 0 and behind = 0.
C17_LenientHeader ==
    (/\ op = "get_status"
     /\ procs # <<>>
     /\ procs[1].how = "exit0"
     /\ \/ ~StartsWith(FirstLine, <<35,35,32>>)  \* "## "
        \/ (Contains(FirstLine, <<91>>) /\ ~Contains(FirstLine, <<93>>))  \* "[" "]"
        \/ FirstLine \in NonNumericHeaders)
    => /\ ret.kind = "ok"
       /\ ret.recs.branch = <<117,110,107,110,111,119,110>>  \* "unknown"
       /\ ret.recs.ahead = 0
       /\ ret.recs.behind = 0

\* C18: is_staged is True exactly when the index code is none of " ", "?"
\* and "!", and is_unstaged is True exactly when the work-tree code is none
\* of these; an untracked file ("??") has both False.
C18_FileStatusBooleans ==
    (op = "_file_out") =>
        /\ ret.recs.is_staged = (ret.recs.index_status \notin {32, 63, 33})
        /\ ret.recs.is_unstaged = (ret.recs.work_status \notin {32, 63, 33})

----------------------------------------------------------------------------
(* Record parsers *)

\* the lines with exactly n - 1 unit separators among the lines from the
\* k-th on
RECURSIVE LinesOfFields(_, _, _)
LinesOfFields(lines, k, n) ==
    IF k > Len(lines) THEN <<>>
    ELSE IF Cardinality({i \in 1..Len(lines[k]) : lines[k][i] = UnitSep}) = n - 1
    THEN <<lines[k]>> \o LinesOfFields(lines, k + 1, n)
    ELSE LinesOfFields(lines, k + 1, n)

\* the j-th field of a line: the text between its (j-1)-th and j-th unit
\* separator
Field(line, j) ==
    LET seps == {i \in 1..Len(line) : line[i] = UnitSep}
        before(i) == Cardinality({x \in seps : x < i})
    IN  SelectSeq([i \in 1..Len(line) |-> IF before(i) = j - 1 /\ i \notin seps THEN line[i] ELSE 0],
                  LAMBDA ch : ch # 0)

\* C19: get_log, list_branches and get_branch_graph return one record for
\* every line of the output that has exactly 6, 4 and 5 unit-separated
\* fields respectively, in the order of the lines and with the fields taken
\* by position; every other line is skipped and the operation does not
\* fail.  list_branches sets is_remote to False in every record and
\* is_current to True exactly when the HEAD field is "*".
C19_RecordParsers ==
    (op \in {"get_log", "list_branches", "get_branch_graph"} /\ procs # <<>> /\ procs[1].how = "exit0") =>
        LET n == CASE op = "get_log" -> 6 [] op = "list_branches" -> 4 [] op = "get_branch_graph" -> 5
            kept == LinesOfFields(SplitLines(procs[1].stdout), 1, n)
        IN  /\ ret.kind = "ok"
            /\ Len(ret.recs) = Len(kept)
            /\ \A k \in 1..Len(kept) :
                   LET r == ret.recs[k]
                       F(j) == Field(kept[k], j)
                   IN  CASE op = "get_log" ->
                              /\ r.sha = F(1) /\ r.short_sha = F(2) /\ r.author = F(3)
                              /\ r.email = F(4) /\ r.date = F(5) /\ r.message = F(6)
                         [] op = "list_branches" ->
                              /\ r.name = F(1) /\ r.last_commit_sha = F(3)
                              /\ r.last_commit_message = F(4)
                              /\ r.is_remote = FALSE
                              /\ r.is_current = (F(2) = <<42>>)  \* "*"
                         [] op = "get_branch_graph" ->
                              /\ r.sha = F(1) /\ r.message = F(2) /\ r.author = F(3)
                              /\ r.date = F(4)
                              /\ F(5) = <<101>> => r.refs = << <<101>> >>  \* "e"
                              /\ F(5) = <<120,44,32,44,121>> => r.refs = << <<120>>, <<121>> >>  \* "x, ,y" "x" "y"

\* get_log has skipped a line of 7 fields and kept the line of 6 fields
\* after it
C19_Witness ==
    /\ op = "get_log"
    /\ procs # <<>>
    /\ Len(SplitLines(procs[1].stdout)) = 2
    /\ Len(Split(SplitLines(procs[1].stdout)[1], UnitSep)) = 7
    /\ Len(ret.recs) = 1
    /\ ret.recs[1].message = <<102>>  \* "f"

\* a branch that is the current one has been listed after one that is not
C19_WitnessBranches ==
    /\ op = "list_branches"
    /\ ret.kind = "ok"
    /\ Len(ret.recs) = 2
    /\ ~ret.recs[1].is_current
    /\ ret.recs[2].is_current

----------------------------------------------------------------------------
(* Remote listing *)

\* the fields of the lines that have at least three of them, from the k-th
\* line on
RECURSIVE RemoteLines(_, _)
RemoteLines(lines, k) ==
    IF k > Len(lines) THEN <<>>
    ELSE IF Len(WsSplit(lines[k])) >= 3 THEN <<WsSplit(lines[k])>> \o RemoteLines(lines, k + 1)
    ELSE RemoteLines(lines, k + 1)

\* the url of the last of the given lines, "" when there is none
LastUrl(L, at) == IF at = {} THEN <<>> ELSE L[CHOOSE i \in at : \A j \in at : j <= i][2]

\* C20: list_remotes returns one record for every remote name of the
\* output, in the order in which the names first appear; fetch_url is the
\* url of the last "(fetch)" line of the name and push_url the url of its
\* last "(push)" line, "" when it has none; a line of fewer than three
\* fields adds nothing.
C20_RemoteRecords ==
    (op = "list_remotes" /\ procs # <<>> /\ procs[1].how = "exit0") =>
        LET L == RemoteLines(SplitLines(procs[1].stdout), 1)
            first(name) == CHOOSE i \in 1..Len(L) : L[i][1] = name /\ \A j \in 1..(i - 1) : L[j][1] # name
            rs == ret.recs
        IN  /\ ret.kind = "ok"
            /\ {rs[i].name : i \in 1..Len(rs)} = {L[i][1] : i \in 1..Len(L)}
            /\ \A i, j \in 1..Len(rs) : i < j => first(rs[i].name) < first(rs[j].name)
            /\ \A i \in 1..Len(rs) :
                   /\ rs[i].fetch_url = LastUrl(L, {k \in 1..Len(L) : L[k][1] = rs[i].name
                                                        /\ L[k][3] = <<40,102,101,116,99,104,41>>})  \* "(fetch)"
                   /\ rs[i].push_url = LastUrl(L, {k \in 1..Len(L) : L[k][1] = rs[i].name
                                                       /\ L[k][3] = <<40,112,117,115,104,41>>})  \* "(push)"

\* a remote with two fetch lines of different urls has been listed
C20_Witness ==
    /\ op = "list_remotes"
    /\ ret.kind = "ok"
    /\ Len(SplitLines(procs[1].stdout)) = 2
    /\ ret.recs = << [name |-> <<97>>, fetch_url |-> <<118>>, push_url |-> <<>>] >>  \* "a" "v"

----------------------------------------------------------------------------
(* C22: a call of run_git resolves the repository path first and starts no *)
(* process when that fails; otherwise it calls subprocess.run exactly once *)
(* with the argument vector "git", "-C", the resolved path and then the    *)
(* arguments of the operation (no process exists only when the git         *)
(* executable is missing), and a failure of that one attempt is what the   *)
(* caller gets: nothing is attempted a second time.  In every operation    *)
(* there are no more attempts than calls of run_git and every process      *)
(* starts with "git", "-C".                                                *)
C22_SingleAttempt ==
    /\ Len(spawned) <= Len(procs)
    /\ Len(procs) <= Len(calls)
    /\ \A i \in 1..Len(spawned) :
           /\ Len(spawned[i]) >= 3
           /\ spawned[i][1] = <<103,105,116>>  \* "git"
           /\ spawned[i][2] = <<45,67>>  \* "-C"
    /\ op = "run_git" =>
           LET cwd == _resolve_repo(in_repo)
           IN  /\ Len(calls) = 1
               /\ cwd.kind # "ok" =>
                      /\ procs = <<>>
                      /\ spawned = <<>>
                      /\ ret.kind = cwd.kind
               /\ cwd.kind = "ok" =>
                      /\ Len(procs) = 1
                      /\ spawned = IF procs[1].how = "missing" THEN <<>>
                                   ELSE << << <<103,105,116>>, <<45,67>>, cwd.path >> \o calls[1] >>
                      /\ procs[1].how # "exit0" => ret.kind = "GitCommandError"
                      /\ procs[1].how = "exit0" => ret.kind = "ok"

\* the one invocation of a call exits non-zero and the call raises
C22_Witness ==
    /\ op = "run_git"
    /\ in_repo.given
    /\ Len(procs) = 1
    /\ procs[1].how = "nonzero"
    /\ Len(spawned) = 1
    /\ Len(spawned[1]) > 3
    /\ ret.kind = "GitCommandError"

----------------------------------------------------------------------------
(* Status lines of an output without a header *)

NotHeader(line) == ~StartsWith(line, <<35,35,32>>)  \* "## "

\* the records of the lines of the output that are not header lines
StatusRecords == FileRecords(SelectSeq(SplitLines(procs[1].stdout), NotHeader), 1)

\* C23: get_status loses no status line: every line of the output of at
\* least 4 characters that is not a "## " header line has its FileStatus
\* record in the lists of the result, as many times as the line occurs, also
\* when the output has no header line and its first line is a status line.
C23_NoStatusLineLost ==
    (op = "get_status" /\ ret.kind = "ok") =>
        \A k \in 1..Len(StatusRecords) :
            LET f == StatusRecords[k]
                n == Count(StatusRecords, f)
            IN  \/ Count(ret.recs.staged, f) = n
                \/ Count(ret.recs.unstaged, f) = n
                \/ Count(ret.recs.untracked, f) = n

----------------------------------------------------------------------------
(* C24: create_commit runs "commit -m <message>" and, only after that      *)
(* invocation has exited 0, "rev-parse --short HEAD"; when it reports a    *)
(* failure no commit has been created, and when a commit has been created  *)
(* the caller gets its short hash.                                         *)
C24_CommitAllOrNothing ==
    op = "create_commit" =>
        /\ Len(calls) <= 2
        /\ Len(calls) >= 1 => calls[1][1] = <<99,111,109,109,105,116>>  \* "commit"
        /\ Len(calls) = 2 =>
               /\ procs # <<>> /\ procs[1].how = "exit0"
               /\ calls[2] = << <<114,101,118,45,112,97,114,115,101>>, <<45,45,115,104,111,114,116>>, <<72,69,65,68>> >>  \* "rev-parse" "--short" "HEAD"
        /\ ret.kind # "ok" => ~committed
        /\ committed => ret.kind = "ok"

----------------------------------------------------------------------------
(* C21: with two requests in flight, a slow git invocation made for one    *)
(* request does not keep the other from being handled: no request spends   *)
(* any time pending while the child process of another request runs.       *)
C21_RequestIsolation ==
    \A r \in Requests : requests[r].waited = 0
====
